---------------------------- MODULE Spec2Model ----------------------------
(***************************************************************************)
(* Model of the page-based sampling engine (VirtualAggregator) and of the  *)
(* resumable batch orchestrator (Experiment) of scientometric_search_      *)
(* engines.                                                                *)
(*                                                                         *)
(* Numbers: scores and weights are floats in the source; the model uses    *)
(* small integers (weights scaled by 2, exp(-j) scaled by 10^6).  The      *)
(* numpy generator is a deterministic function of its seed and is modelled *)
(* by a full-period linear congruential generator; Python's `random`       *)
(* module is never seeded by the source, so random.choice is a free        *)
(* choice among the elements of the page.                                  *)
(***************************************************************************)
EXTENDS Integers, Sequences, FiniteSets, TLC

VARIABLES
    \* ---- VirtualAggregator (simulation_engine.py) ----
    N, k, pn,            \* self.N, self.k, self.pn (0, 0, <<>> stand for None)
    candidates,          \* the prepared candidates handed to rank_and_sample
    seed,                \* the value last given to np.random.seed
    np_state,            \* state of numpy's global generator
    spc,                 \* position inside the seeded sampling call
    working_pages,       \* rank_and_sample: working_pages
    selected_papers,     \* rank_and_sample: selected_papers
    draw_i,              \* rank_and_sample: iterations of `for _ in range(self.k)` begun
    result,              \* the Counter returned by rank_and_sample
    run,                 \* which of the two executions compared is running
    first_result,        \* the Counter returned by the first execution
    \* ---- Experiment (experiment.py), one process at a time ----
    settings,            \* self.settings: the configuration list
    pc,                  \* position of the process inside run_experiment
    hash_salt,           \* the process's string-hash randomisation key
    start_index, end_index,
    global_query_id,     \* start_index + query_offset
    processed,
    settings_id,         \* position of the configuration loop
    distribution_dict,   \* insertion-ordered: <<[settings, distribution], ...>>
    result_buffer,       \* settings_id -> [query_id: list, distribution: list]
    flush_kind,          \* "periodic" (line 150) or "final" (line 155)
    save_id,             \* save_results: position in result_dict.items()
    file_exists,         \* save_results: os.path.isfile(file_path) before open
    row_i,               \* save_results: rows of the current file written
    \* ---- the file system ----
    results_dir,         \* whether data/results exists
    log,                 \* settings_id -> data/results/<id>/results.csv (lines) or NoFile
    snapshot,            \* data/processed/global_distributions.csv (rows) or NoFile
    \* ---- history, read by the properties only ----
    launches,            \* processes started so far
    produced,            \* <<[settings_id, query_id, distribution], ...>> of this process
    log_len0,            \* settings_id -> lines of the log when this process started
    begun,               \* query ids whose processing this process began, in order
    calls,               \* calls made for the query begun last: [get, prepare]
    first_seed,          \* the seed the first of two launches gave the query
    \* ---- the entry point (run_experiment.py) and the engine's construction ----
    mpc,                 \* position of the process inside main()
    settings_file,       \* data/external/settings.pkl: [exists, content]
    scaler_file,         \* whether models/global_scaler.pkl exists
    scaler,              \* self.scaler: whether the scaler is loaded
    retries,             \* init_connection: retries
    chroma_collection,   \* self.chroma_collection: set (TRUE) or None (FALSE)
    attempts,            \* history: connection attempts made by init_connection
    logged,              \* history: the logger.error records of main()
    exception,           \* the exception leaving run_experiment ("none": none)
    \* ---- the environment ----
    tie_break,           \* how this numpy build's argsort orders equal keys
    \* ---- the readers of global_distributions.csv ----
    csv_file,            \* the file as text: [exists, rows]
    tpc,                 \* position inside save / load / transform
    row_n,               \* transform_to_citations: rows of iterrows() begun
    parser_calls,        \* history: <<[parser, row, text], ...>>
    dist_dict,           \* transform_to_citations: dist_dict of the row
    final_rows,          \* transform_to_citations: final_rows
    results_df           \* load_results: the rows of the returned DataFrame

svars == <<N, k, pn, candidates, seed, np_state, spc, working_pages,
           selected_papers, draw_i, result, run, first_result>>

\* the memory of the Experiment process
mvars == <<pc, hash_salt, start_index, end_index, global_query_id, processed,
           settings_id, distribution_dict, result_buffer, flush_kind, save_id,
           file_exists, row_i>>

fvars == <<results_dir, log, snapshot>>

hvars == <<launches, produced, log_len0, begun, calls, first_seed>>

ovars == <<settings, mvars, fvars, hvars>>

\* the entry point and the construction of the engine
bvars == <<mpc, settings_file, scaler_file, scaler, retries, chroma_collection,
           attempts, logged>>

\* the readers of the snapshot file
tvars == <<csv_file, tpc, row_n, parser_calls, dist_dict, final_rows,
           results_df>>

xvars == <<exception, tie_break, tvars>>

vars == <<svars, ovars, bvars, xvars>>

-----------------------------------------------------------------------------
(* Bounds of the model *)

MaxCand == 3      \* most candidates a query retrieves (250 in the source)
MaxN == 3         \* largest page size N
MaxK == 3         \* largest draw count k
NumQueries == 4   \* len(self.queries)
Batch == 3        \* the batch size, scaled down (batch=40_000 in the source)
FlushEvery == 2   \* the checkpoint interval, scaled down (2500 in the source)
MaxLaunches == 3  \* processes started in one behaviour
MaxCount == 2     \* largest draw count of an id in a persisted distribution
MaxRows == 2      \* rows of a snapshot file, configurations of a snapshot
MaxIds == 2       \* ids of one persisted distribution

Ids == {"A", "B", "C"}

Seeds == {42, 45}

\* Criterion weights [similarity, year, citations, gov score], scaled by 2.
Weights == {<<2, 0, 0, 0>>, <<1, 1, 0, 0>>, <<0, 0, 2, 0>>}

\* values standing for Python's None / "not set yet"
NoInt == -1

NoKind == "none"

-----------------------------------------------------------------------------
(* Sequences and Counters *)

Range(s) == {s[i] : i \in DOMAIN s}

Min(a, b) == IF a <= b THEN a ELSE b

Max(a, b) == IF a >= b THEN a ELSE b

Occurrences(s, x) == Cardinality({i \in DOMAIN s : s[i] = x})

\* collections.Counter(seq): element -> number of occurrences (keys with count > 0)
Counter(s) == [x \in Range(s) |-> Occurrences(s, x)]

EmptyCounter == Counter(<<>>)

CounterGet(c, x) == IF x \in DOMAIN c THEN c[x] ELSE 0

RECURSIVE SumOver(_, _)
SumOver(c, keys) ==
    IF keys = {} THEN 0
    ELSE LET x == CHOOSE y \in keys : TRUE
         IN  c[x] + SumOver(c, keys \ {x})

CounterTotal(c) == SumOver(c, DOMAIN c)

\* All sequences over S of length 0..n
SeqsUpTo(S, n) == UNION {[1..m -> S] : m \in 0..n}

-----------------------------------------------------------------------------
(* Text: a str is a sequence of characters.  repr() and str() of the       *)
(* Python values that reach a CSV cell, the csv quoting of to_csv and      *)
(* read_csv, and the two parsers json.loads and ast.literal_eval.          *)
(* A parsed value is a tagged tuple: <<"int", n>>, <<"float", hundredths>>,*)
(* <<"str", chars>>, <<"none">>, <<"bool", b>>, <<"list", items>>,         *)
(* <<"dict", mapping>>.                                                    *)

Apos == "'"

DQuote == "\""

Backslash == "\\"

Digit == <<"0", "1", "2", "3", "4", "5", "6", "7", "8", "9">>

IsDigit(ch) == \E i \in 1..10 : Digit[i] = ch

DigitValue(ch) == (CHOOSE i \in 1..10 : Digit[i] = ch) - 1

\* str(n) of an int n >= 0
RECURSIVE IntRepr(_)
IntRepr(n) ==
    IF n < 10 THEN <<Digit[n + 1]>>
    ELSE IntRepr(n \div 10) \o <<Digit[(n % 10) + 1]>>

\* repr(x) of a float x >= 0 with at most two decimals, given in hundredths:
\* the shortest text that reads back as x
FloatRepr(h) ==
    IntRepr(h \div 100) \o <<".">> \o
    (IF h % 10 = 0 THEN <<Digit[((h % 100) \div 10) + 1]>>
     ELSE <<Digit[((h % 100) \div 10) + 1], Digit[(h % 10) + 1]>>)

\* sep.join(parts)
RECURSIVE Join(_, _)
Join(parts, sep) ==
    IF Len(parts) = 0 THEN <<>>
    ELSE IF Len(parts) = 1 THEN parts[1]
    ELSE parts[1] \o sep \o Join(Tail(parts), sep)

\* the characters of s with the quote q and the backslash escaped
RECURSIVE Escaped(_, _)
Escaped(s, q) ==
    IF s = <<>> THEN <<>>
    ELSE (IF Head(s) \in {q, Backslash} THEN <<Backslash, Head(s)>>
          ELSE <<Head(s)>>) \o Escaped(Tail(s), q)

\* (mutant) always single quotes, nothing escaped
StrReprPlain(s) == <<Apos>> \o s \o <<Apos>>

\* repr(s) of a str: single quotes, unless s holds ' and no "
StrRepr(s) ==
    LET q == IF Apos \in Range(s) /\ DQuote \notin Range(s)
             THEN DQuote ELSE Apos
    IN  <<q>> \o Escaped(s, q) \o <<q>>

\* repr of a list, given the reprs of its items
ListRepr(items) == <<"[">> \o Join(items, <<",", " ">>) \o <<"]">>

\* repr of a dict, given the <<repr(key), repr(value)>> of its items in order
DictRepr(items) ==
    <<"{">> \o Join([i \in DOMAIN items |->
                       items[i][1] \o <<":", " ">> \o items[i][2]],
                    <<",", " ">>) \o <<"}">>

\* str.replace("'", '"')
Normalize(t) == [i \in DOMAIN t |-> IF t[i] = Apos THEN DQuote ELSE t[i]]

\* what a parser returns: a value and the position after it, or a failure
ParseFail == [ok |-> FALSE, v |-> <<"none">>, pos |-> 0]

Parsed(v, p) == [ok |-> TRUE, v |-> v, pos |-> p]

RECURSIVE SkipWs(_, _)
SkipWs(t, p) == IF p <= Len(t) /\ t[p] = " " THEN SkipWs(t, p + 1) ELSE p

\* the text t holds the word w at position p
HasWord(t, p, w) ==
    /\ p + Len(w) - 1 <= Len(t)
    /\ SubSeq(t, p, p + Len(w) - 1) = w

\* the quotes that open a string, and the characters a backslash may escape
Quotes(mode) == IF mode = "json" THEN {DQuote} ELSE {Apos, DQuote}

Escapable(mode) ==
    IF mode = "json" THEN {DQuote, Backslash} ELSE {Apos, DQuote, Backslash}

\* a string literal opened by q before position p
RECURSIVE ScanString(_, _, _, _, _)
ScanString(t, p, q, acc, mode) ==
    IF p > Len(t) THEN ParseFail
    ELSE IF t[p] = q THEN Parsed(<<"str", acc>>, p + 1)
    ELSE IF t[p] = Backslash
    THEN IF p + 1 <= Len(t) /\ t[p + 1] \in Escapable(mode)
         THEN ScanString(t, p + 2, q, Append(acc, t[p + 1]), mode)
         ELSE ParseFail
    ELSE ScanString(t, p + 1, q, Append(acc, t[p]), mode)

\* the end of the run of digits that starts at p
RECURSIVE DigitsEnd(_, _)
DigitsEnd(t, p) ==
    IF p <= Len(t) /\ IsDigit(t[p]) THEN DigitsEnd(t, p + 1) ELSE p

RECURSIVE DigitsValue(_, _, _)
DigitsValue(t, p, e) ==
    IF p >= e THEN 0
    ELSE DigitsValue(t, p, e - 1) * 10 + DigitValue(t[e - 1])

\* an int or a float literal at p (at most two decimals are kept apart)
ScanNumber(t, p) ==
    LET e == DigitsEnd(t, p)
        f == IF e <= Len(t) /\ t[e] = "." THEN DigitsEnd(t, e + 1) ELSE e
    IN  IF e = p \/ (e > p + 1 /\ t[p] = "0") THEN ParseFail
        ELSE IF f = e THEN Parsed(<<"int", DigitsValue(t, p, e)>>, e)
        ELSE IF f = e + 1 \/ f > e + 3 THEN ParseFail
        ELSE Parsed(<<"float", DigitsValue(t, p, e) * 100
                               + (IF f = e + 2
                                  THEN DigitsValue(t, e + 1, f) * 10
                                  ELSE DigitsValue(t, e + 1, f))>>, f)

\* the names either language has for its constants
ScanName(t, p, mode) ==
    LET none  == IF mode = "json" THEN <<"n", "u", "l", "l">>
                 ELSE <<"N", "o", "n", "e">>
        true  == IF mode = "json" THEN <<"t", "r", "u", "e">>
                 ELSE <<"T", "r", "u", "e">>
        false == IF mode = "json" THEN <<"f", "a", "l", "s", "e">>
                 ELSE <<"F", "a", "l", "s", "e">>
    IN  IF HasWord(t, p, none) THEN Parsed(<<"none">>, p + 4)
        ELSE IF HasWord(t, p, true) THEN Parsed(<<"bool", TRUE>>, p + 4)
        ELSE IF HasWord(t, p, false) THEN Parsed(<<"bool", FALSE>>, p + 5)
        ELSE ParseFail

\* a dict key: JSON takes strings only, Python any hashable literal
IsKey(v, mode) ==
    IF mode = "json" THEN v[1] = "str" ELSE v[1] \notin {"list", "dict"}

\* the dict of a sequence of <<key, value>> items: the last item of a key wins
DictOf(items) ==
    [key \in {items[i][1] : i \in DOMAIN items} |->
        items[CHOOSE i \in DOMAIN items :
                 /\ items[i][1] = key
                 /\ \A j \in DOMAIN items : items[j][1] = key => j <= i][2]]

RECURSIVE ParseValue(_, _, _), ParseItems(_, _, _, _), ParseElems(_, _, _, _)

\* the elements of a list after `[`, up to and including `]`
ParseElems(t, p, acc, mode) ==
    LET v == ParseValue(t, p, mode)
        a == SkipWs(t, v.pos)
    IN  IF ~v.ok \/ a > Len(t) THEN ParseFail
        ELSE IF t[a] = "]" THEN Parsed(<<"list", Append(acc, v.v)>>, a + 1)
        ELSE IF t[a] # "," THEN ParseFail
        ELSE LET b == SkipWs(t, a + 1)
             IN  IF mode = "py" /\ b <= Len(t) /\ t[b] = "]"
                 THEN Parsed(<<"list", Append(acc, v.v)>>, b + 1)
                 ELSE ParseElems(t, b, Append(acc, v.v), mode)

\* the items of a dict after `{`, up to and including `}`
ParseItems(t, p, acc, mode) ==
    LET key == ParseValue(t, p, mode)
        c == SkipWs(t, key.pos)
    IN  IF ~key.ok \/ ~IsKey(key.v, mode) \/ c > Len(t) THEN ParseFail
        ELSE IF t[c] # ":" THEN ParseFail
        ELSE LET v == ParseValue(t, SkipWs(t, c + 1), mode)
                 a == SkipWs(t, v.pos)
                 items == Append(acc, <<key.v, v.v>>)
             IN  IF ~v.ok \/ a > Len(t) THEN ParseFail
                 ELSE IF t[a] = "}" THEN Parsed(<<"dict", DictOf(items)>>, a + 1)
                 ELSE IF t[a] # "," THEN ParseFail
                 ELSE LET b == SkipWs(t, a + 1)
                      IN  IF mode = "py" /\ b <= Len(t) /\ t[b] = "}"
                          THEN Parsed(<<"dict", DictOf(items)>>, b + 1)
                          ELSE ParseItems(t, b, items, mode)

\* one value at position p
ParseValue(t, p, mode) ==
    IF p > Len(t) THEN ParseFail
    ELSE IF t[p] = "{"
    THEN LET a == SkipWs(t, p + 1)
         IN  IF a <= Len(t) /\ t[a] = "}"
             THEN Parsed(<<"dict", DictOf(<<>>)>>, a + 1)
             ELSE ParseItems(t, a, <<>>, mode)
    ELSE IF t[p] = "["
    THEN LET a == SkipWs(t, p + 1)
         IN  IF a <= Len(t) /\ t[a] = "]"
             THEN Parsed(<<"list", <<>>>>, a + 1)
             ELSE ParseElems(t, a, <<>>, mode)
    ELSE IF t[p] \in Quotes(mode) THEN ScanString(t, p + 1, t[p], <<>>, mode)
    ELSE IF IsDigit(t[p]) THEN ScanNumber(t, p)
    ELSE ScanName(t, p, mode)

\* the whole text is one value, surrounded by blanks at most
Loads(t, mode) ==
    LET v == ParseValue(t, SkipWs(t, 1), mode)
    IN  IF v.ok /\ SkipWs(t, v.pos) = Len(t) + 1 THEN v ELSE ParseFail

\* json.loads(t): raises (ok = FALSE) unless t is a JSON document
JsonLoads(t) == Loads(t, "json")

\* ast.literal_eval(t): raises (ok = FALSE) unless t is a Python literal
LiteralEval(t) == Loads(t, "py")

\* csv, QUOTE_MINIMAL: a field is quoted when it holds the delimiter, the
\* quote character or a line end; a quote inside is doubled
RECURSIVE Doubled(_)
Doubled(s) ==
    IF Len(s) = 0 THEN <<>>
    ELSE IF Len(s) = 1
    THEN (IF s[1] = DQuote THEN <<DQuote, DQuote>> ELSE s)
    ELSE LET h == Len(s) \div 2
         IN  Doubled(SubSeq(s, 1, h)) \o Doubled(SubSeq(s, h + 1, Len(s)))

CsvField(s) ==
    IF Range(s) \cap {",", DQuote, "\n", "\r"} # {}
    THEN <<DQuote>> \o Doubled(s) \o <<DQuote>>
    ELSE s

CsvLine(fields) == Join([i \in DOMAIN fields |-> CsvField(fields[i])], <<",">>)

\* the positions of t, ascending, that hold a character of `chars`
Positions(t, chars) ==
    SelectSeq([i \in 1..Len(t) |-> i], LAMBDA i : t[i] \in chars)

\* how many of the ascending positions ps lie before position p
CountBefore(ps, p) == Len(SelectSeq(ps, LAMBDA i : i < p))

\* the csv reader: a comma outside quotes ends a field
Delimiters(line) ==
    LET qs == Positions(line, {DQuote})
    IN  SelectSeq(Positions(line, {","}),
                  LAMBDA p : CountBefore(qs, p) % 2 = 0)

\* the csv reader: the quotes around a field are dropped and of each doubled
\* quote inside one is kept
Unquoted(field) ==
    IF Len(field) < 2 \/ field[1] # DQuote \/ field[Len(field)] # DQuote
    THEN field
    ELSE LET c == SubSeq(field, 2, Len(field) - 1)
             qs == Positions(c, {DQuote})
             kept == SelectSeq([i \in 1..Len(c) |-> i],
                               LAMBDA i : \/ c[i] # DQuote
                                          \/ CountBefore(qs, i + 1) % 2 = 1)
         IN  [j \in DOMAIN kept |-> c[kept[j]]]

\* the fields of one line as the csv reader splits it
CsvFields(line) ==
    LET ds == Delimiters(line)
        n == Len(ds)
        first(j) == IF j = 1 THEN 1 ELSE ds[j - 1] + 1
        last(j) == IF j = n + 1 THEN Len(line) ELSE ds[j] - 1
    IN  [j \in 1..(n + 1) |-> Unquoted(SubSeq(line, first(j), last(j)))]
-----------------------------------------------------------------------------
(* Prepared candidates: what prepare_candidates returns for the papers     *)
(* retrieved.  Each paper has a similarity and three scaled features.      *)

PaperSim == [x \in Ids |-> CASE x = "A" -> 3 [] x = "B" -> 2 [] OTHER -> 2]

PaperScaled ==
    [x \in Ids |-> CASE x = "A" -> <<0, 1, 0>>
                     [] x = "B" -> <<1, 0, 0>>
                     [] OTHER   -> <<0, 2, 0>>]

Prepared(ids) ==
    [ids    |-> ids,
     sim    |-> [i \in DOMAIN ids |-> PaperSim[ids[i]]],
     scaled |-> [i \in DOMAIN ids |-> PaperScaled[ids[i]]]]

\* no candidates prepared yet
NoCandidates == Prepared(<<>>)

CandidateSets == {Prepared(ids) : ids \in SeqsUpTo(Ids, MaxCand)}

-----------------------------------------------------------------------------
(* numpy's global generator *)

\* np.random.seed(s): the generator state is a function of the seed alone
NpSeed(s) == s % 64

\* one uniform sample consumed
NpNext(s) == (5 * s + 3) % 64

\* exp(-j) for j = 1..9, scaled by 10^6
ExpNeg == <<367879, 135335, 49787, 18316, 6738, 2479, 912, 335, 123>>

\* distribution_function(number_of_pages): the weights exp(-1..-m); the
\* division by their sum is carried by DistSum wherever the entries are used
distribution_function(number_of_pages) ==
    [j \in 1..number_of_pages |-> ExpNeg[j]]

RECURSIVE DistCum(_, _)
DistCum(p, j) == IF j = 0 THEN 0 ELSE p[j] + DistCum(p, j - 1)

DistSum(p) == DistCum(p, Len(p))

\* np.random.choice(m, p=p): searchsorted(cumsum(p), u, side='right') for the
\* uniform sample u = s/64; the result is 0-based
NpChoice(s, p) ==
    Cardinality({j \in 1..Len(p) : DistCum(p, j) * 64 <= s * DistSum(p)})

-----------------------------------------------------------------------------
(* rank_and_sample *)

Scores(c, w) ==
    [i \in DOMAIN c.ids |->
        w[1] * c.sim[i] + w[2] * c.scaled[i][1]
      + w[3] * c.scaled[i][2] + w[4] * c.scaled[i][3]]

\* the orders in which an argsort may leave equal keys
TieBreaks == {"input", "reversed"}

\* index i comes before index j among equal keys
TieOrder(i, j) == IF tie_break = "input" THEN i <= j ELSE i >= j

\* np.argsort(-scores): indices by descending score.  The default kind is
\* quicksort, which is not stable: the order of equal scores is fixed for a
\* build of numpy and an input, but it need not be the input order
RECURSIVE Argsort(_, _)
Argsort(scores, left) ==
    IF left = {} THEN <<>>
    ELSE LET best == CHOOSE i \in left :
                        \A j \in left :
                            \/ scores[i] > scores[j]
                            \/ scores[i] = scores[j] /\ TieOrder(i, j)
         IN  <<best>> \o Argsort(scores, left \ {best})

RankedIds(c, w) ==
    LET sorted_indices == Argsort(Scores(c, w), DOMAIN c.ids)
    IN  [r \in DOMAIN sorted_indices |-> c.ids[sorted_indices[r]]]

\* (mutant) only the full pages: the page count is len // N
PagesFullOnly(ranked_ids, n) ==
    LET len == Len(ranked_ids)
        cnt == len \div n
    IN  [p \in 1..cnt |->
            SubSeq(ranked_ids, (p - 1) * n + 1, Min(p * n, len))]

\* (mutant) the page count is len // N + 1: a full last page is followed by
\* an empty one
PagesOneMore(ranked_ids, n) ==
    LET len == Len(ranked_ids)
        cnt == (len \div n) + 1
    IN  [p \in 1..cnt |->
            SubSeq(ranked_ids, (p - 1) * n + 1, Min(p * n, len))]

\* ranked_ids[i:i + N] for i in range(0, len(ranked_ids), N)
Pages(ranked_ids, n) ==
    LET len == Len(ranked_ids)
        cnt == (len + n - 1) \div n
    IN  [p \in 1..cnt |->
            SubSeq(ranked_ids, (p - 1) * n + 1, Min(p * n, len))]

\* (mutant) every page index, the emptied pages included
AllIndices(wp) == [j \in 1..Len(wp) |-> j]

\* [idx for idx, p in enumerate(working_pages) if len(p) > 0], in page order
ActiveIndices(wp) ==
    LET act == {i \in DOMAIN wp : Len(wp[i]) > 0}
        F[j \in 0..Len(wp)] ==
            IF j = 0 THEN <<>>
            ELSE IF j \in act THEN Append(F[j - 1], j) ELSE F[j - 1]
    IN  F[Len(wp)]

\* (mutant) every occurrence of x is removed
RemoveAll(page, x) == SelectSeq(page, LAMBDA y : y # x)

\* (mutant) the drawn paper stays on its page
KeepAll(page, x) == page

\* list.remove(x): the list without its first occurrence of x
ListRemove(page, x) ==
    LET at == CHOOSE i \in DOMAIN page :
                  page[i] = x /\ \A j \in 1..(i - 1) : page[j] # x
    IN  SubSeq(page, 1, at - 1) \o SubSeq(page, at + 1, Len(page))

\* random.choice(page): Python's generator is unseeded, any element may come
RandomChoice(page) == Range(page)

\* (mutant) the relative index is taken for the page index
AbsPageIdxUnmapped(wp, s) ==
    LET active_indices == ActiveIndices(wp)
        page_distribution == distribution_function(Len(active_indices))
        rel_idx == NpChoice(s, page_distribution)
    IN  rel_idx + 1

\* lines 213-216: the page a draw selects, as an index into working_pages
AbsPageIdx(wp, s) ==
    LET active_indices == ActiveIndices(wp)
        page_distribution == distribution_function(Len(active_indices))
        rel_idx == NpChoice(s, page_distribution)
    IN  active_indices[rel_idx + 1]

\* One iteration of the draw loop on working pages wp with generator state s:
\* the set of possible <<paper_id, working_pages', np_state'>>
DrawStep(wp, s) ==
    LET abs_page_idx == AbsPageIdx(wp, s)
        page == wp[abs_page_idx]
    IN  {<<paper_id,
           [wp EXCEPT ![abs_page_idx] = ListRemove(page, paper_id)],
           NpNext(s)>> : paper_id \in RandomChoice(page)}

-----------------------------------------------------------------------------
(* rank_and_sample as one call: every <<Counter, np_state'>> it can return  *)
(* on working pages wp, generator state s, with `left` iterations to go    *)

RECURSIVE SampleRuns(_, _, _, _)
SampleRuns(wp, s, sel, left) ==
    IF left = 0 \/ ActiveIndices(wp) = <<>>
    THEN {<<Counter(sel), s>>}
    ELSE UNION {SampleRuns(o[2], o[3], Append(sel, o[1]), left - 1) :
                    o \in DrawStep(wp, s)}

rank_and_sample(c, n, kk, w, s) ==
    SampleRuns(Pages(RankedIds(c, w), n), s, <<>>, kk)

\* (mutant) the drawn papers are removed from the candidates themselves
CandidatesDepleted(c, drawn) ==
    LET left == SelectSeq([i \in 1..Len(c.ids) |-> i],
                          LAMBDA i : c.ids[i] \notin DOMAIN drawn)
    IN  [ids |-> [j \in DOMAIN left |-> c.ids[left[j]]],
         sim |-> [j \in DOMAIN left |-> c.sim[left[j]]],
         scaled |-> [j \in DOMAIN left |-> c.scaled[left[j]]]]

\* lines 196-204 and 221: the candidates after a call that has drawn `drawn`.
\* ranked_ids, pages and working_pages are new lists, the papers are removed
\* from working_pages only, the candidates are read and never written
CandidatesAfter(c, drawn) == c

-----------------------------------------------------------------------------
(* Experiment: configurations, queries, dictionaries and files *)

Config(n, kk, w) == [N |-> n, k |-> kk, pn |-> w]

\* the configuration lists an experiment may be given (settings.pkl)
SettingsLists ==
    {<<Config(1, 1, <<2, 0, 0, 0>>), Config(1, 1, <<1, 1, 0, 0>>)>>,
     <<Config(2, 1, <<1, 1, 0, 0>>), Config(2, 1, <<1, 1, 0, 0>>)>>}

SettingsIds == 0..(Len(settings) - 1)

\* str(config) of a configuration dict {"N": .., "k": .., "pn": [..]}: the
\* weights, here scaled by 2, are floats with at most two decimals
StrConfig(config) ==
    DictRepr(<< <<StrRepr(<<"N">>), IntRepr(config.N)>>,
                <<StrRepr(<<"k">>), IntRepr(config.k)>>,
                <<StrRepr(<<"p", "n">>),
                  ListRepr([i \in DOMAIN config.pn |->
                              FloatRepr(50 * config.pn[i])])>> >>)

\* (mutant) the key names the page size only
PageSizeKey(config) == IntRepr(config.N)

\* str(config): the key of distribution_dict; equal configurations, equal keys
SettingsKey(config) == StrConfig(config)

\* get_similar_articles: the ids the collection returns for query q
Hits == << <<"A", "B">>, <<"C">>, <<"B", "A">> >>

get_similar_articles(q) == Hits[(q % Len(Hits)) + 1]

\* prepare_candidates(results)
prepare_candidates(ids) == Prepared(ids)

\* hash(str(n)) in a process whose hash randomisation key is salt
HashSalts == {0, 1}

PyHashStr(salt, n) == (n * 31 + salt * 17) % 1000003

\* line 105: hash(str(42 + global_query_id)) % (2**32 - 1); the hashes of the
\* model lie in 0..1000002, where the reduction modulo 2^32 - 1 changes nothing
QuerySeed(salt, gid) == PyHashStr(salt, 42 + gid)

\* (mutant) dict.update: the counts of `b` replace those of `a`
DictUpdate(a, b) ==
    [x \in DOMAIN a \cup DOMAIN b |-> IF x \in DOMAIN b THEN b[x] ELSE a[x]]

\* Counter.update(other): counts are added
CounterUpdate(a, b) ==
    [x \in DOMAIN a \cup DOMAIN b |-> CounterGet(a, x) + CounterGet(b, x)]

DictKeys(d) == {d[i].settings : i \in DOMAIN d}

DictGet(d, key) == d[CHOOSE i \in DOMAIN d : d[i].settings = key].distribution

\* lines 141-145: aggregate a step result under str(config)
Aggregate(d, key, step) ==
    IF key \in DictKeys(d)
    THEN [i \in DOMAIN d |->
            IF d[i].settings = key
            THEN [d[i] EXCEPT !.distribution = CounterUpdate(@, step)]
            ELSE d[i]]
    ELSE Append(d, [settings |-> key, distribution |-> step])

EmptyBuffer == [i \in {} |-> <<>>]

\* (mutant) every step result is buffered under index 0
BufferAddFirst(buf, sid, gid, step) ==
    IF 0 \notin DOMAIN buf
    THEN [i \in {0} |-> [query_id |-> <<gid>>, distribution |-> <<step>>]]
    ELSE [buf EXCEPT ![0] =
            [query_id |-> Append(@.query_id, gid),
             distribution |-> Append(@.distribution, step)]]

\* lines 129-138: buffer a step result under settings_id
BufferAdd(buf, sid, gid, step) ==
    IF sid \notin DOMAIN buf
    THEN [i \in DOMAIN buf \cup {sid} |->
            IF i = sid THEN [query_id |-> <<gid>>, distribution |-> <<step>>]
            ELSE buf[i]]
    ELSE [buf EXCEPT ![sid] =
            [query_id |-> Append(@.query_id, gid),
             distribution |-> Append(@.distribution, step)]]

\* (mutant) no periodic checkpoint
NeverFlush(n) == FALSE

\* line 150: processed % 2500 == 0
ShouldFlush(n) == n % FlushEvery = 0

\* (mutant) the buffer is kept after a periodic flush
KeepBuffer(buf) == buf

\* line 153: result_buffer = {}
ClearedBuffer(buf) == EmptyBuffer

\* result_dict.items() in insertion order: the settings ids ascending
RECURSIVE BufferKeys(_)
BufferKeys(left) ==
    IF left = {} THEN <<>>
    ELSE LET m == CHOOSE i \in left : \A j \in left : i <= j
         IN  <<m>> \o BufferKeys(left \ {m})

\* a file: whether it exists, and its lines
NoFile == [exists |-> FALSE, lines |-> <<>>]

File(lines) == [exists |-> TRUE, lines |-> lines]

Write(f, l) == [f EXCEPT !.lines = Append(@, l)]

\* csv.DictWriter.writeheader(): the row of the field names
Header == [kind |-> "header", query_id |-> NoInt,
           distribution |-> EmptyCounter]

\* csv.DictWriter.writerow({"query_id": ..., "distribution": ...})
Row(gid, dist) == [kind |-> "row", query_id |-> gid, distribution |-> dist]

Lines(f) == f.lines

\* the rows of a log that are not the header row
RowsOf(lines) == SelectSeq(lines, LAMBDA l : l.kind = "row")

DataRows(f) == RowsOf(Lines(f))

\* open(path, "a") keeps the content; created empty if missing
OpenAppend(f) == File(f.lines)

\* (mutant) the snapshot file is opened without truncation
OpenKeep(f) == File(f.lines)

\* DataFrame.to_csv(path): the file is opened for writing, truncated
OpenWrite(f) == File(<<>>)

\* (mutant) only the first item of distribution_dict is written
SnapshotHead(d) == SubSeq(d, 1, Min(1, Len(d)))

\* save_distribution: one row per item of distribution_dict, in order
SnapshotRows(d) == d

\* (mutant) the line count minus one is not clamped at zero
health_check_unclamped ==
    IF ~results_dir THEN [i \in {} |-> 0]
    ELSE [idx \in SettingsIds |->
            IF ~log[idx].exists THEN 0
            ELSE Len(log[idx].lines) - 1]

\* health_check: settings_id -> controll_sum; {} without data/results
health_check ==
    IF ~results_dir THEN [i \in {} |-> 0]
    ELSE [idx \in SettingsIds |->
            IF ~log[idx].exists THEN 0
            ELSE Max(0, Len(log[idx].lines) - 1)]

\* line 87: progress_status.get(0, {}).get("controll_sum", 0) or 0
AlreadySaved(progress_status) ==
    IF 0 \in DOMAIN progress_status THEN progress_status[0] ELSE 0

\* no call of get_similar_articles or prepare_candidates made yet
NoCalls == [get |-> 0, prepare |-> 0]

\* the queries of the experiment: indices into self.queries
QueryIndices == 0..(NumQueries - 1)

\* an artifact file holding `content`, and a missing one
Artifact(content) == [exists |-> TRUE, content |-> content]

NoArtifact == [exists |-> FALSE, content |-> <<>>]

\* main() has loaded the configuration list `loaded` and constructed the
\* Experiment: the scaler is loaded and the collection connected
BootDone(loaded) ==
    /\ mpc = "run"
    /\ settings_file = Artifact(loaded)
    /\ scaler_file = TRUE
    /\ scaler = TRUE
    /\ retries = 0
    /\ chroma_collection = TRUE
    /\ attempts = 0
    /\ logged = <<>>

\* global_distributions.csv does not exist
NoCsv == [exists |-> FALSE, lines |-> <<>>]

\* a parsed dict without items
EmptyDict == <<"dict", DictOf(<<>>)>>

\* nothing reads or writes the snapshot text
TransformOff ==
    /\ csv_file = NoCsv
    /\ tpc = "off"
    /\ row_n = 0
    /\ parser_calls = <<>>
    /\ dist_dict = EmptyDict
    /\ final_rows = <<>>
    /\ results_df = <<>>

SamplerOff ==
    /\ spc = "off"
    /\ working_pages = <<>>
    /\ selected_papers = <<>>
    /\ draw_i = 0
    /\ result = EmptyCounter
    /\ run = 1
    /\ first_result = EmptyCounter

\* the memory of a process that is not running
MemoryOff ==
    /\ hash_salt = NoInt
    /\ start_index = 0 /\ end_index = 0
    /\ global_query_id = 0
    /\ processed = 0
    /\ settings_id = 0
    /\ distribution_dict = <<>>
    /\ result_buffer = EmptyBuffer
    /\ flush_kind = NoKind
    /\ save_id = 0
    /\ file_exists = FALSE
    /\ row_i = 0

ExperimentOff ==
    /\ settings = <<>>
    /\ pc = "off"
    /\ MemoryOff
    /\ results_dir = FALSE
    /\ log = EmptyBuffer
    /\ snapshot = NoFile
    /\ launches = 0
    /\ produced = <<>>
    /\ log_len0 = EmptyBuffer
    /\ begun = <<>>
    /\ calls = NoCalls
    /\ first_seed = NoInt

-----------------------------------------------------------------------------
(* One seeded sampling call: np.random.seed(seed), set_parameters,         *)
(* rank_and_sample.                                                        *)

SampleInit ==
    /\ N = 0 /\ k = 0 /\ pn = <<>>
    /\ candidates \in CandidateSets
    /\ seed \in Seeds
    /\ np_state = NpSeed(seed)
    /\ spc = "ready"
    /\ working_pages = <<>>
    /\ selected_papers = <<>>
    /\ draw_i = 0
    /\ result = EmptyCounter
    /\ run = 1
    /\ first_result = EmptyCounter
    /\ ExperimentOff
    /\ BootDone(<<>>)
    /\ exception = "none"
    /\ tie_break \in TieBreaks
    /\ TransformOff

set_parameters ==
    /\ spc = "ready"
    /\ N' \in 1..MaxN
    /\ k' \in 1..MaxK
    /\ pn' \in Weights
    /\ spc' = "call"
    /\ UNCHANGED <<xvars, bvars, candidates, seed, np_state, working_pages, selected_papers,
                   draw_i, result, run, first_result, ovars>>

\* rank_and_sample up to the draw loop: score, sort, paginate, copy the pages
RankAndPaginate ==
    /\ spc = "call"
    /\ working_pages' = Pages(RankedIds(candidates, pn), N)
    /\ selected_papers' = <<>>
    /\ draw_i' = 0
    /\ spc' = "loop"
    /\ UNCHANGED <<xvars, bvars, N, k, pn, candidates, seed, np_state, result, run,
                   first_result, ovars>>

\* line 206 and lines 207-211: an iteration is left and a page is active
CanDraw ==
    /\ spc = "loop"
    /\ draw_i < k
    /\ ActiveIndices(working_pages) # <<>>

\* line 206 and lines 210-211: the iterations are used up, or `break`
LoopOver ==
    /\ spc = "loop"
    /\ draw_i = k \/ ActiveIndices(working_pages) = <<>>

\* one iteration of `for _ in range(self.k)` that draws a paper
Draw ==
    /\ CanDraw
    /\ \E o \in DrawStep(working_pages, np_state) :
          /\ selected_papers' = Append(selected_papers, o[1])
          /\ working_pages' = o[2]
          /\ np_state' = o[3]
    /\ draw_i' = draw_i + 1
    /\ UNCHANGED <<xvars, bvars, N, k, pn, candidates, seed, spc, result, run, first_result,
                   ovars>>

\* the loop ends (k iterations done, or `break` on no active page) and the
\* Counter of the selected papers is returned
Return ==
    /\ LoopOver
    /\ result' = Counter(selected_papers)
    /\ candidates' = CandidatesAfter(candidates, result')
    /\ spc' = "done"
    /\ UNCHANGED <<xvars, bvars, N, k, pn, seed, np_state, working_pages,
                   selected_papers, draw_i, run, first_result, ovars>>

SampleNext == set_parameters \/ RankAndPaginate \/ Draw \/ Return

SampleSpec == SampleInit /\ [][SampleNext]_vars

\* The same query sampled a second time with the same configuration after
\* np.random.seed is called again with the same seed
Rerun ==
    /\ spc = "done"
    /\ run = 1
    /\ first_result' = result
    /\ run' = 2
    /\ np_state' = NpSeed(seed)
    /\ result' = EmptyCounter
    /\ spc' = "call"
    /\ UNCHANGED <<xvars, bvars, N, k, pn, candidates, seed, working_pages, selected_papers,
                   draw_i, ovars>>

TwinNext == SampleNext \/ Rerun

TwinSpec == SampleInit /\ [][TwinNext]_vars

-----------------------------------------------------------------------------
(* One query of run_experiment sampled by two launches: the process that   *)
(* reaches the query first, and a process started later whose range holds  *)
(* the query again.  Lines 100-105 seed the generator from the query index *)
(* with the string hash of the process.                                    *)

ResumeInit ==
    /\ N = 0 /\ k = 0 /\ pn = <<>>
    /\ global_query_id \in QueryIndices
    /\ start_index \in 0..global_query_id
    /\ end_index = Min(start_index + Batch, NumQueries)
    /\ hash_salt \in HashSalts
    /\ seed = QuerySeed(hash_salt, global_query_id)
    /\ np_state = NpSeed(seed)
    /\ candidates = prepare_candidates(get_similar_articles(global_query_id))
    /\ spc = "ready"
    /\ working_pages = <<>>
    /\ selected_papers = <<>>
    /\ draw_i = 0
    /\ result = EmptyCounter
    /\ run = 1
    /\ first_result = EmptyCounter
    /\ settings = <<>>
    /\ pc = "off"
    /\ processed = 0
    /\ settings_id = 0
    /\ distribution_dict = <<>>
    /\ result_buffer = EmptyBuffer
    /\ flush_kind = NoKind
    /\ save_id = 0
    /\ file_exists = FALSE
    /\ row_i = 0
    /\ results_dir = FALSE
    /\ log = EmptyBuffer
    /\ snapshot = NoFile
    /\ launches = 1
    /\ produced = <<>>
    /\ log_len0 = EmptyBuffer
    /\ begun = <<>>
    /\ calls = NoCalls
    /\ first_seed = NoInt
    /\ BootDone(<<>>)
    /\ exception = "none"
    /\ tie_break \in TieBreaks
    /\ TransformOff

\* a later process reaches the same query with the same configuration: its
\* string hash has its own key, its range its own offset
Relaunch ==
    /\ spc = "done"
    /\ run = 1
    /\ hash_salt' \in HashSalts
    /\ start_index' \in 0..global_query_id
    /\ end_index' = Min(start_index' + Batch, NumQueries)
    /\ seed' = QuerySeed(hash_salt', global_query_id)
    /\ np_state' = NpSeed(seed')
    /\ first_seed' = seed
    /\ first_result' = result
    /\ run' = 2
    /\ launches' = 2
    /\ result' = EmptyCounter
    /\ spc' = "call"
    /\ UNCHANGED <<xvars, bvars, N, k, pn, candidates, working_pages, selected_papers,
                   draw_i, settings, pc, global_query_id, processed,
                   settings_id, distribution_dict, result_buffer, flush_kind,
                   save_id, file_exists, row_i, fvars, produced, log_len0,
                   begun, calls>>

ResumeNext == SampleNext \/ Relaunch

ResumeSpec == ResumeInit /\ [][ResumeNext]_vars

-----------------------------------------------------------------------------
(* Experiment.run_experiment, one process at a time; a process may be      *)
(* killed at any point and a new one started later.                        *)

Init ==
    /\ N = 0 /\ k = 0 /\ pn = <<>>
    /\ candidates = NoCandidates
    /\ seed = NoInt
    /\ np_state = NoInt
    /\ SamplerOff
    /\ settings \in SettingsLists
    /\ pc = "idle"
    /\ MemoryOff
    /\ results_dir = FALSE
    /\ log = [i \in SettingsIds |-> NoFile]
    /\ snapshot = NoFile
    /\ launches = 0
    /\ produced = <<>>
    /\ log_len0 = [i \in SettingsIds |-> 0]
    /\ begun = <<>>
    /\ calls = NoCalls
    /\ first_seed = NoInt
    /\ BootDone(settings)
    /\ exception = "none"
    /\ tie_break \in TieBreaks
    /\ TransformOff

sampler == <<spc, working_pages, selected_papers, draw_i, result, run,
             first_result>>

\* lines 82-98: a process starts, reads its progress and fixes its range
Start ==
    /\ pc \in {"idle", "done", "crashed"}
    /\ launches < MaxLaunches
    /\ hash_salt' \in HashSalts
    /\ LET progress_status == health_check
           already_saved == AlreadySaved(progress_status)
       IN  /\ start_index' = already_saved
           /\ end_index' = Min(already_saved + Batch, NumQueries)
           /\ global_query_id' = already_saved
    /\ distribution_dict' = <<>>
    /\ result_buffer' = EmptyBuffer
    /\ processed' = 0
    /\ settings_id' = 0 /\ flush_kind' = NoKind /\ save_id' = 0
    /\ file_exists' = FALSE /\ row_i' = 0
    /\ IF pc = "idle"
       THEN UNCHANGED <<N, k, pn, candidates, seed, np_state>>
       ELSE /\ N' = 0 /\ k' = 0 /\ pn' = <<>>
            /\ candidates' = NoCandidates /\ seed' = NoInt /\ np_state' = NoInt
    /\ pc' = "loop"
    /\ launches' = launches + 1
    /\ produced' = <<>>
    /\ log_len0' = [i \in SettingsIds |-> Len(Lines(log[i]))]
    /\ begun' = <<>>
    /\ calls' = NoCalls
    /\ UNCHANGED <<xvars, bvars, settings, fvars, sampler, first_seed>>

\* (mutant) the slice includes the query at end_index
InSliceInclusive(gid, e) == gid <= e

\* lines 100-102: self.queries[start_index:end_index] still holds query gid
InSlice(gid, e) == gid < e

\* lines 100-116: the next query is seeded, retrieved and prepared
BeginQuery ==
    /\ pc = "loop"
    /\ InSlice(global_query_id, end_index)
    /\ seed' = QuerySeed(hash_salt, global_query_id)
    /\ np_state' = NpSeed(seed')
    /\ candidates' = prepare_candidates(get_similar_articles(global_query_id))
    /\ settings_id' = 0
    /\ pc' = "fanout"
    /\ begun' = Append(begun, global_query_id)
    /\ calls' = [get |-> 1, prepare |-> 1]
    /\ UNCHANGED <<xvars, bvars, N, k, pn, sampler, settings, hash_salt, start_index,
                   end_index, global_query_id, processed, distribution_dict,
                   result_buffer, flush_kind, save_id, file_exists, row_i,
                   fvars, launches, produced, log_len0, first_seed>>

\* (mutant) the configuration loop ends after its first iteration
FirstConfigOnly(sid) == sid < 1

\* line 119: `for settings_id, config in enumerate(self.settings)` goes on
ConfigsLeft(sid) == sid < Len(settings)

\* lines 119-145: one configuration is sampled, buffered and aggregated
StepConfig ==
    /\ pc = "fanout"
    /\ ConfigsLeft(settings_id)
    /\ LET config == settings[settings_id + 1]
       IN  /\ N' = config.N /\ k' = config.k /\ pn' = config.pn
           /\ \E o \in rank_and_sample(candidates, config.N, config.k,
                                       config.pn, np_state) :
                 /\ np_state' = o[2]
                 /\ candidates' = CandidatesAfter(candidates, o[1])
                 /\ result_buffer' = BufferAdd(result_buffer, settings_id,
                                               global_query_id, o[1])
                 /\ distribution_dict' = Aggregate(distribution_dict,
                                                   SettingsKey(config), o[1])
                 /\ produced' = Append(produced,
                                       [settings_id |-> settings_id,
                                        query_id |-> global_query_id,
                                        candidates |-> candidates,
                                        distribution |-> o[1]])
    /\ settings_id' = settings_id + 1
    /\ UNCHANGED <<xvars, bvars, seed, sampler, settings, pc, hash_salt,
                   start_index, end_index, global_query_id, processed,
                   flush_kind, save_id, file_exists, row_i, fvars, launches,
                   log_len0, begun, calls, first_seed>>

\* lines 147-153: the query is done; every FlushEvery-th one starts a flush
EndQuery ==
    /\ pc = "fanout"
    /\ ~ConfigsLeft(settings_id)
    /\ processed' = processed + 1
    /\ IF ShouldFlush(processed')
       THEN /\ pc' = "save_distribution"
            /\ flush_kind' = "periodic"
            /\ UNCHANGED global_query_id
       ELSE /\ pc' = "loop"
            /\ global_query_id' = global_query_id + 1
            /\ UNCHANGED flush_kind
    /\ UNCHANGED <<xvars, bvars, svars, settings, hash_salt, start_index, end_index,
                   settings_id, distribution_dict, result_buffer, save_id,
                   file_exists, row_i, fvars, hvars>>

\* lines 155-157: the range is exhausted, the final flush starts
LoopExit ==
    /\ pc = "loop"
    /\ ~InSlice(global_query_id, end_index)
    /\ pc' = "save_distribution"
    /\ flush_kind' = "final"
    /\ UNCHANGED <<xvars, bvars, svars, settings, hash_salt, start_index, end_index,
                   global_query_id, processed, settings_id, distribution_dict,
                   result_buffer, save_id, file_exists, row_i, fvars, hvars>>

\* save_distribution, lines 213-216: to_csv opens the snapshot file
SnapshotOpen ==
    /\ pc = "save_distribution"
    /\ snapshot' = OpenWrite(snapshot)
    /\ pc' = "to_csv"
    /\ UNCHANGED <<xvars, bvars, svars, settings, hash_salt, start_index, end_index,
                   global_query_id, processed, settings_id, distribution_dict,
                   result_buffer, flush_kind, save_id, file_exists, row_i,
                   results_dir, log, hvars>>

\* save_distribution, lines 207-216: to_csv writes the rows
SnapshotWrite ==
    /\ pc = "to_csv"
    /\ snapshot' = [snapshot EXCEPT
                        !.lines = @ \o SnapshotRows(distribution_dict)]
    /\ save_id' = 0
    /\ pc' = "save_results"
    /\ UNCHANGED <<xvars, bvars, svars, settings, hash_salt, start_index, end_index,
                   global_query_id, processed, settings_id, distribution_dict,
                   result_buffer, flush_kind, file_exists, row_i,
                   results_dir, log, hvars>>

SaveKeys == BufferKeys(DOMAIN result_buffer)

\* save_results, lines 178-183: the next buffered configuration
Makedirs ==
    /\ pc = "save_results"
    /\ save_id < Len(SaveKeys)
    /\ IF result_buffer[SaveKeys[save_id + 1]].query_id = <<>>
       THEN /\ save_id' = save_id + 1
            /\ UNCHANGED <<pc, results_dir>>
       ELSE /\ results_dir' = TRUE
            /\ pc' = "open"
            /\ UNCHANGED save_id
    /\ UNCHANGED <<xvars, bvars, svars, settings, hash_salt, start_index, end_index,
                   global_query_id, processed, settings_id, distribution_dict,
                   result_buffer, flush_kind, file_exists, row_i, log,
                   snapshot, hvars>>

\* save_results, lines 185-188: isfile, then open(file_path, "a")
OpenLog ==
    /\ pc = "open"
    /\ LET sid == SaveKeys[save_id + 1]
       IN  /\ file_exists' = log[sid].exists
           /\ log' = [log EXCEPT ![sid] = OpenAppend(@)]
    /\ pc' = "header"
    /\ UNCHANGED <<xvars, bvars, svars, settings, hash_salt, start_index, end_index,
                   global_query_id, processed, settings_id, distribution_dict,
                   result_buffer, flush_kind, save_id, row_i, results_dir,
                   snapshot, hvars>>

\* save_results, lines 194-195: the header, for a file that did not exist
WriteHeader ==
    /\ pc = "header"
    /\ LET sid == SaveKeys[save_id + 1]
       IN  log' = IF file_exists THEN log
                  ELSE [log EXCEPT ![sid] = Write(@, Header)]
    /\ row_i' = 0
    /\ pc' = "rows"
    /\ UNCHANGED <<xvars, bvars, svars, settings, hash_salt, start_index, end_index,
                   global_query_id, processed, settings_id, distribution_dict,
                   result_buffer, flush_kind, save_id, file_exists,
                   results_dir, snapshot, hvars>>

\* save_results, lines 197-201: one buffered row
WriteRow ==
    /\ pc = "rows"
    /\ LET sid == SaveKeys[save_id + 1]
           data == result_buffer[sid]
       IN  /\ row_i < Len(data.query_id)
           /\ log' = [log EXCEPT ![sid] =
                        Write(@, Row(data.query_id[row_i + 1],
                                     data.distribution[row_i + 1]))]
    /\ row_i' = row_i + 1
    /\ UNCHANGED <<xvars, bvars, svars, settings, pc, hash_salt, start_index, end_index,
                   global_query_id, processed, settings_id, distribution_dict,
                   result_buffer, flush_kind, save_id, file_exists,
                   results_dir, snapshot, hvars>>

\* save_results: the file's rows are written, it is closed
CloseLog ==
    /\ pc = "rows"
    /\ row_i = Len(result_buffer[SaveKeys[save_id + 1]].query_id)
    /\ save_id' = save_id + 1
    /\ pc' = "save_results"
    /\ UNCHANGED <<xvars, bvars, svars, settings, hash_salt, start_index, end_index,
                   global_query_id, processed, settings_id, distribution_dict,
                   result_buffer, flush_kind, file_exists, row_i, fvars,
                   hvars>>

\* save_results returns: line 153 after a periodic flush, the end of
\* run_experiment after the final one
FlushDone ==
    /\ pc = "save_results"
    /\ save_id = Len(SaveKeys)
    /\ IF flush_kind = "periodic"
       THEN /\ result_buffer' = ClearedBuffer(result_buffer)
            /\ global_query_id' = global_query_id + 1
            /\ pc' = "loop"
       ELSE /\ pc' = "done"
            /\ UNCHANGED <<result_buffer, global_query_id>>
    /\ UNCHANGED <<xvars, bvars, svars, settings, hash_salt, start_index, end_index,
                   processed, settings_id, distribution_dict, flush_kind,
                   save_id, file_exists, row_i, fvars, hvars>>

Running == pc \notin {"idle", "done", "crashed"}

\* the process is killed: its memory is gone, the files stay as they are
Crash ==
    /\ Running
    /\ pc' = "crashed"
    /\ hash_salt' = NoInt
    /\ start_index' = 0 /\ end_index' = 0
    /\ global_query_id' = 0
    /\ processed' = 0
    /\ settings_id' = 0
    /\ distribution_dict' = <<>>
    /\ result_buffer' = EmptyBuffer
    /\ flush_kind' = NoKind
    /\ save_id' = 0
    /\ file_exists' = FALSE
    /\ row_i' = 0
    /\ N' = 0 /\ k' = 0 /\ pn' = <<>>
    /\ candidates' = NoCandidates /\ seed' = NoInt /\ np_state' = NoInt
    /\ produced' = <<>>
    /\ begun' = <<>>
    /\ calls' = NoCalls
    /\ UNCHANGED <<xvars, bvars, sampler, settings, fvars, launches, log_len0, first_seed>>

Next ==
    \/ Start \/ BeginQuery \/ StepConfig \/ EndQuery \/ LoopExit
    \/ SnapshotOpen \/ SnapshotWrite
    \/ Makedirs \/ OpenLog \/ WriteHeader \/ WriteRow \/ CloseLog \/ FlushDone
    \/ Crash

Spec == Init /\ [][Next]_vars

-----------------------------------------------------------------------------
(* main() of run_experiment.py: one execution of the entry point, from the *)
(* check of the settings file through the construction of the Experiment   *)
(* (VirtualAggregator.__init__, init_connection) to the end of             *)
(* run_experiment.                                                         *)

\* init_connection: max_retries
MaxRetries == 5

MainInit ==
    /\ N = 0 /\ k = 0 /\ pn = <<>>
    /\ candidates = NoCandidates
    /\ seed = NoInt
    /\ np_state = NoInt
    /\ SamplerOff
    /\ settings = <<>>
    /\ pc = "off"
    /\ MemoryOff
    /\ results_dir = FALSE
    /\ settings_file \in {NoArtifact} \cup {Artifact(sl) : sl \in SettingsLists}
    /\ log = [i \in 0..(Len(settings_file.content) - 1) |-> NoFile]
    /\ snapshot = NoFile
    /\ launches = 0
    /\ produced = <<>>
    /\ log_len0 = [i \in 0..(Len(settings_file.content) - 1) |-> 0]
    /\ begun = <<>>
    /\ calls = NoCalls
    /\ first_seed = NoInt
    /\ mpc = "main"
    /\ scaler_file \in BOOLEAN
    /\ scaler = FALSE
    /\ retries = 0
    /\ chroma_collection = FALSE
    /\ attempts = 0
    /\ logged = <<>>
    /\ exception = "none"
    /\ tie_break \in TieBreaks
    /\ TransformOff

\* main, lines 50-66: the settings file is checked and loaded
CheckSettings ==
    /\ mpc = "main"
    /\ IF ~settings_file.exists
       THEN /\ logged' = Append(logged, [msg |-> "Missing settings file",
                                            e |-> "none"])
            /\ mpc' = "returned"
            /\ UNCHANGED settings
       ELSE /\ settings' = settings_file.content
            /\ mpc' = "seed"
            /\ UNCHANGED logged
    /\ UNCHANGED <<xvars, svars, mvars, fvars, hvars, settings_file, scaler_file,
                   scaler, retries, chroma_collection, attempts>>

\* main, line 71: np.random.seed(42)
MainSeed ==
    /\ mpc = "seed"
    /\ seed' = 42
    /\ np_state' = NpSeed(42)
    /\ mpc' = "experiment"
    /\ UNCHANGED <<xvars, N, k, pn, candidates, sampler, ovars, settings_file,
                   scaler_file, scaler, retries, chroma_collection, attempts,
                   logged>>

\* (mutant) a scaler is fitted when the artifact is missing
FitWhenMissing(exists) == TRUE

\* line 49: joblib.load succeeds when the file exists, else FileNotFoundError
JoblibLoad(exists) == exists

\* VirtualAggregator.__init__, lines 42-56: the fields are None, the scaler
\* is loaded or RuntimeError is raised; then init_connection is entered
LoadScaler ==
    /\ mpc = "experiment"
    /\ N' = 0 /\ k' = 0 /\ pn' = <<>>
    /\ chroma_collection' = FALSE
    /\ IF JoblibLoad(scaler_file)
       THEN /\ scaler' = TRUE
            /\ retries' = 0
            /\ mpc' = "connect"
       ELSE /\ mpc' = "raised"
            /\ UNCHANGED <<scaler, retries>>
    /\ UNCHANGED <<xvars, candidates, seed, np_state, sampler, ovars, settings_file,
                   scaler_file, attempts, logged>>

\* (mutant) one attempt more than max_retries
RetryOneMore(r) == r <= MaxRetries

\* line 84: while retries < max_retries
RetryLeft(r) == r < MaxRetries

\* init_connection, lines 85-90: an attempt succeeds, the method returns
ConnectOk ==
    /\ mpc = "connect"
    /\ RetryLeft(retries)
    /\ attempts' = attempts + 1
    /\ chroma_collection' = TRUE
    /\ mpc' = "constructed"
    /\ UNCHANGED <<xvars, svars, ovars, settings_file, scaler_file, scaler, retries,
                   logged>>

\* init_connection, lines 85-93: an attempt raises, retries += 1
ConnectFails ==
    /\ mpc = "connect"
    /\ RetryLeft(retries)
    /\ attempts' = attempts + 1
    /\ retries' = retries + 1
    /\ UNCHANGED <<xvars, svars, ovars, mpc, settings_file, scaler_file, scaler,
                   chroma_collection, logged>>

\* init_connection, lines 84 and 95: the loop is left, RuntimeError is raised
ConnectGiveUp ==
    /\ mpc = "connect"
    /\ ~RetryLeft(retries)
    /\ mpc' = "raised"
    /\ UNCHANGED <<xvars, svars, ovars, settings_file, scaler_file, scaler, retries,
                   chroma_collection, attempts, logged>>

\* Experiment.__init__, lines 52-54, and main, lines 81-82: the Experiment is
\* constructed and run_experiment is called
Constructed ==
    /\ mpc = "constructed"
    /\ mpc' = "run"
    /\ pc' = "idle"
    /\ UNCHANGED <<xvars, svars, settings, hash_salt, start_index, end_index,
                   global_query_id, processed, settings_id, distribution_dict,
                   result_buffer, flush_kind, save_id, file_exists, row_i,
                   fvars, hvars, settings_file, scaler_file, scaler, retries,
                   chroma_collection, attempts, logged>>

\* run_experiment begins in the process main() has set up
MainStart ==
    /\ mpc = "run"
    /\ pc = "idle"
    /\ Start

\* lines 105-111: the query is seeded, then get_similar_articles raises; the
\* call is not inside any try, the exception leaves run_experiment
RetrievalFails ==
    /\ mpc = "run"
    /\ pc = "loop"
    /\ global_query_id < end_index
    /\ seed' = QuerySeed(hash_salt, global_query_id)
    /\ np_state' = NpSeed(seed')
    /\ begun' = Append(begun, global_query_id)
    /\ calls' = [get |-> 1, prepare |-> 0]
    /\ exception' = "get_similar_articles"
    /\ pc' = "failed"
    /\ UNCHANGED <<tie_break, tvars, bvars, N, k, pn, candidates, sampler, settings, hash_salt,
                   start_index, end_index, global_query_id, processed,
                   settings_id, distribution_dict, result_buffer, flush_kind,
                   save_id, file_exists, row_i, fvars, launches, produced,
                   log_len0, first_seed>>

\* lines 113-116: the query is seeded and retrieved, then prepare_candidates
\* (the normalization of the hits) raises; no try surrounds the call
NormalizationFails ==
    /\ mpc = "run"
    /\ pc = "loop"
    /\ global_query_id < end_index
    /\ seed' = QuerySeed(hash_salt, global_query_id)
    /\ np_state' = NpSeed(seed')
    /\ begun' = Append(begun, global_query_id)
    /\ calls' = [get |-> 1, prepare |-> 1]
    /\ exception' = "prepare_candidates"
    /\ pc' = "failed"
    /\ UNCHANGED <<tie_break, tvars, bvars, N, k, pn, candidates, sampler,
                   settings, hash_salt, start_index, end_index,
                   global_query_id, processed, settings_id, distribution_dict,
                   result_buffer, flush_kind, save_id, file_exists, row_i,
                   fvars, launches, produced, log_len0, first_seed>>

\* lines 119-126: the parameters of a configuration are set, then step (the
\* sampling) raises; nothing of this configuration is buffered or aggregated
SamplingFails ==
    /\ mpc = "run"
    /\ pc = "fanout"
    /\ ConfigsLeft(settings_id)
    /\ LET config == settings[settings_id + 1]
       IN  N' = config.N /\ k' = config.k /\ pn' = config.pn
    /\ exception' = "step"
    /\ pc' = "failed"
    /\ UNCHANGED <<tie_break, tvars, bvars, candidates, seed, np_state, sampler,
                   settings, hash_salt, start_index, end_index,
                   global_query_id, processed, settings_id, distribution_dict,
                   result_buffer, flush_kind, save_id, file_exists, row_i,
                   fvars, hvars>>

\* lines 151-152 and 156-157: save_distribution or save_results raises at
\* any of its steps; what the steps before it have written stays in the files
PersistenceFails ==
    /\ mpc = "run"
    /\ pc \in {"save_distribution", "to_csv", "save_results", "open", "header",
               "rows"}
    /\ exception' = (IF pc \in {"save_distribution", "to_csv"}
                     THEN "save_distribution" ELSE "save_results")
    /\ pc' = "failed"
    /\ UNCHANGED <<tie_break, tvars, bvars, svars, settings, hash_salt,
                   start_index, end_index, global_query_id, processed,
                   settings_id, distribution_dict, result_buffer, flush_kind,
                   save_id, file_exists, row_i, fvars, hvars>>

\* main, line 82: run_experiment returns, main returns
MainReturn ==
    /\ mpc = "run"
    /\ pc = "done"
    /\ mpc' = "returned"
    /\ UNCHANGED <<xvars, svars, ovars, settings_file, scaler_file, scaler, retries,
                   chroma_collection, attempts, logged>>

\* (mutant) the handler ends after logging: main returns normally
Swallow == "returned"

\* main, line 85: the bare `raise` of the handler raises the exception again
Reraise == "raised"

\* main, lines 83-85: the exception is logged and raised again
MainExcept ==
    /\ mpc = "run"
    /\ pc = "failed"
    /\ logged' = Append(logged, [msg |-> "Batch execution failed",
                                 e |-> exception])
    /\ mpc' = Reraise
    /\ UNCHANGED <<xvars, svars, ovars, settings_file, scaler_file, scaler, retries,
                   chroma_collection, attempts>>

MainNext ==
    \/ CheckSettings \/ MainSeed \/ LoadScaler
    \/ ConnectOk \/ ConnectFails \/ ConnectGiveUp \/ Constructed
    \/ MainStart \/ BeginQuery \/ RetrievalFails \/ NormalizationFails
    \/ StepConfig \/ SamplingFails \/ EndQuery \/ PersistenceFails
    \/ LoopExit \/ SnapshotOpen \/ SnapshotWrite
    \/ Makedirs \/ OpenLog \/ WriteHeader \/ WriteRow \/ CloseLog \/ FlushDone
    \/ MainReturn \/ MainExcept

MainSpec == MainInit /\ [][MainNext]_vars

-----------------------------------------------------------------------------
(* The snapshot data/processed/global_distributions.csv as text, and its   *)
(* readers: save_distribution writes it, load_results (visualize.py) and   *)
(* DistributionTransformer.transform_to_citations read it back.            *)

\* candidate ids as they may come from the collection: the row number of the
\* metadata ("1"), and ids that hold quote characters
TextIds == {"1", "B'", "'\""}

\* the characters of an id
StrChars(x) ==
    CASE x = "1" -> <<"1">>
      [] x = "B'" -> <<"B", Apos>>
      [] x = "'\"" -> <<Apos, DQuote>>
      [] OTHER -> <<x>>

\* the Python values of the model's ids, counters and configurations
PyStr(x) == <<"str", StrChars(x)>>

PyCounter(c) ==
    <<"dict", [key \in {PyStr(x) : x \in DOMAIN c} |->
                 <<"int", c[CHOOSE x \in DOMAIN c : PyStr(x) = key]>>]>>

PyConfig(config) ==
    <<"dict",
      DictOf(<< <<<<"str", <<"N">>>>, <<"int", config.N>>>>,
                <<<<"str", <<"k">>>>, <<"int", config.k>>>>,
                <<<<"str", <<"p", "n">>>>,
                  <<"list", [i \in DOMAIN config.pn |->
                               <<"float", 50 * config.pn[i]>>]>>>> >>)>>

\* the configurations of the snapshots below: page_sizes, citation_numbers
\* and weight vectors of generate_all_settings
PersistConfigs ==
    {Config(10, 25, <<1, 1, 0, 0>>), Config(100, 10, <<0, 0, 2, 0>>)}

\* Counters with positive counts over the ids
TextCounters ==
    UNION {[S -> 1..MaxCount] :
             S \in {T \in SUBSET TextIds : Cardinality(T) <= MaxIds}}

\* run_experiment's distribution_dict: str(config) -> Counter, distinct keys
GlobalDistributions ==
    {d \in UNION {[1..n -> [settings : {SettingsKey(c) : c \in PersistConfigs},
                            distribution : TextCounters]] :
                  n \in 0..Min(MaxRows, Cardinality(PersistConfigs))} :
        \A i, j \in DOMAIN d : i # j => d[i].settings # d[j].settings}

\* the orders in which the items of a dict over S may have been inserted
Perms(S) ==
    {f \in [1..Cardinality(S) -> S] :
        \A i, j \in DOMAIN f : i # j => f[i] # f[j]}

\* for every row of d, an insertion order of its Counter (the order in which
\* the ids were first drawn, which the Counters of this model do not keep)
ItemOrders(d) ==
    {o \in [DOMAIN d -> UNION {Perms(DOMAIN d[i].distribution) :
                                 i \in DOMAIN d}] :
        \A i \in DOMAIN d : o[i] \in Perms(DOMAIN d[i].distribution)}

\* str(dict(counter)), the items in the order `items`
CounterText(c, items) ==
    DictRepr([i \in DOMAIN items |->
                <<StrRepr(StrChars(items[i])), IntRepr(c[items[i]])>>])

SettingsColumn == <<"s", "e", "t", "t", "i", "n", "g", "s">>

DistributionColumn ==
    <<"d", "i", "s", "t", "r", "i", "b", "u", "t", "i", "o", "n">>

CsvFile(lines) == [exists |-> TRUE, lines |-> lines]

\* DataFrame.to_csv(path, index=False): the header, then one line per row
ToCsv(rows) ==
    CsvFile(<<CsvLine(<<SettingsColumn, DistributionColumn>>)>> \o
            [i \in DOMAIN rows |->
               CsvLine(<<rows[i].settings, rows[i].distribution>>)])

\* lines 207-211: DataFrame(list(distribution_dict.items())), apply(dict);
\* written, a cell is the str() of its value
SnapshotCells(d, orders) ==
    [i \in DOMAIN d |->
       [settings |-> d[i].settings,
        distribution |-> CounterText(d[i].distribution, orders[i])]]

\* save_distribution: the file it leaves
SnapshotCsv(d, orders) == ToCsv(SnapshotCells(d, orders))

\* pd.read_csv(path): the rows by column name; it raises (ok = FALSE) on a
\* file without header or on a row whose fields do not fit the header
ReadCsv(f) ==
    IF ~f.exists \/ Len(f.lines) = 0 THEN [ok |-> FALSE, rows |-> <<>>]
    ELSE LET header == CsvFields(f.lines[1])
             col(name) == CHOOSE j \in DOMAIN header : header[j] = name
             data == [i \in 1..(Len(f.lines) - 1) |-> CsvFields(f.lines[i + 1])]
         IN  IF \/ {SettingsColumn, DistributionColumn} \ Range(header) # {}
                \/ \E i \in DOMAIN data : Len(data[i]) # Len(header)
             THEN [ok |-> FALSE, rows |-> <<>>]
             ELSE [ok |-> TRUE,
                   rows |-> [i \in DOMAIN data |->
                               [settings |-> data[i][col(SettingsColumn)],
                                distribution |->
                                    data[i][col(DistributionColumn)]]]]

\* distribution cells of snapshot files this program did not write, or wrote
\* only in part: a dict in Python syntax, one in JSON syntax, one whose key
\* holds an apostrophe, one with an int key, and a truncated one
ForeignTexts ==
    {<<"{", Apos, "1", Apos, ":", " ", "2", "}">>,
     <<"{", DQuote, "1", DQuote, ":", " ", "2", "}">>,
     <<"{", DQuote, "B", Apos, DQuote, ":", " ", "1", "}">>,
     <<"{", "1", ":", " ", "2", "}">>,
     <<"{", Apos, "1", Apos, ":", " ", "2">>}

ForeignFiles ==
    {ToCsv([i \in DOMAIN cells |->
              [settings |-> SettingsKey(Config(10, 25, <<1, 1, 0, 0>>)),
               distribution |-> cells[i]]]) :
        cells \in UNION {[1..n -> ForeignTexts] : n \in 1..MaxRows}}

\* __init__, lines 27-30: str(row number) -> n_citation of the metadata
id_to_citation == [x \in {<<"1">>, <<"2">>} |-> IF x = <<"1">> THEN 7 ELSE 0]

\* str(paper_id) of a parsed key
StrOf(key) == IF key[1] = "int" THEN IntRepr(key[2]) ELSE key[2]

\* lines 68-72: the selections of the known ids, added up per citation count
CitationCounter(dd) ==
    LET m == dd[2]
        known == {key \in DOMAIN m : StrOf(key) \in DOMAIN id_to_citation}
        cit(key) == id_to_citation[StrOf(key)]
        count == [key \in known |-> m[key][2]]
    IN  [n \in {cit(key) : key \in known} |->
           SumOver(count, {key \in known : cit(key) = n})]

PersistInit ==
    /\ N = 0 /\ k = 0 /\ pn = <<>>
    /\ candidates = NoCandidates /\ seed = NoInt /\ np_state = NoInt
    /\ SamplerOff
    /\ settings = <<>>
    /\ pc = "off"
    /\ hash_salt = NoInt
    /\ start_index = 0 /\ end_index = 0
    /\ global_query_id = 0
    /\ processed = 0
    /\ settings_id = 0
    /\ result_buffer = EmptyBuffer
    /\ flush_kind = NoKind
    /\ save_id = 0
    /\ file_exists = FALSE
    /\ row_i = 0
    /\ results_dir = FALSE
    /\ log = EmptyBuffer
    /\ snapshot = NoFile
    /\ launches = 0
    /\ produced = <<>>
    /\ log_len0 = EmptyBuffer
    /\ begun = <<>>
    /\ calls = NoCalls
    /\ first_seed = NoInt
    /\ BootDone(<<>>)
    /\ exception = "none"
    /\ tie_break = "input"
    /\ tpc = "off"
    /\ row_n = 0
    /\ parser_calls = <<>>
    /\ dist_dict = EmptyDict
    /\ final_rows = <<>>
    /\ results_df = <<>>
    /\ \/ distribution_dict \in GlobalDistributions /\ csv_file = NoCsv
       \/ distribution_dict = <<>> /\ csv_file \in ForeignFiles

\* experiment.py, lines 203-216: the snapshot file is replaced by the text of
\* distribution_dict
save_distribution ==
    /\ tpc = "off"
    /\ \E orders \in ItemOrders(distribution_dict) :
          csv_file' = SnapshotCsv(distribution_dict, orders)
    /\ tpc' = "saved"
    /\ UNCHANGED <<svars, ovars, bvars, exception, tie_break, row_n,
                   parser_calls, dist_dict, final_rows, results_df>>

\* visualize.py, lines 37-40: read_csv, then ast.literal_eval on every cell
\* of the two columns; a cell that is no literal makes load_results raise
load_results ==
    /\ tpc \in {"off", "saved"}
    /\ LET df == ReadCsv(csv_file)
           sv == [i \in DOMAIN df.rows |-> LiteralEval(df.rows[i].settings)]
           dv == [i \in DOMAIN df.rows |-> LiteralEval(df.rows[i].distribution)]
       IN  IF df.ok /\ \A i \in DOMAIN df.rows : sv[i].ok /\ dv[i].ok
           THEN /\ results_df' = [i \in DOMAIN df.rows |->
                                    [settings |-> sv[i].v,
                                     distribution |-> dv[i].v]]
                /\ tpc' = "loaded"
           ELSE /\ tpc' = "load_raised"
                /\ UNCHANGED results_df
    /\ UNCHANGED <<svars, ovars, bvars, exception, tie_break, csv_file, row_n,
                   parser_calls, dist_dict, final_rows>>

\* the rows transform_to_citations iterates over
df_results == ReadCsv(csv_file).rows

\* distribution_transformer.py, lines 44-50: the input file is checked and
\* read
TransformOpen ==
    /\ tpc \in {"off", "saved"}
    /\ tpc' = IF csv_file.exists THEN "iterrows" ELSE "not_found"
    /\ row_n' = 0
    /\ final_rows' = <<>>
    /\ UNCHANGED <<svars, ovars, bvars, exception, tie_break, csv_file,
                   parser_calls, dist_dict, results_df>>

\* lines 52-56: the next row, if any
NextRow ==
    /\ tpc = "iterrows"
    /\ row_n < Len(df_results)
    /\ row_n' = row_n + 1
    /\ tpc' = "try"
    /\ UNCHANGED <<svars, ovars, bvars, exception, tie_break, csv_file,
                   parser_calls, dist_dict, final_rows, results_df>>

\* lines 58-60: json.loads of the cell with ' replaced by "
PrimaryParse ==
    /\ tpc = "try"
    /\ LET text == Normalize(df_results[row_n].distribution)
           r == JsonLoads(text)
       IN  /\ parser_calls' = Append(parser_calls,
                                     [parser |-> "json.loads", row |-> row_n,
                                      text |-> text])
           /\ IF r.ok THEN dist_dict' = r.v /\ tpc' = "aggregate"
              ELSE tpc' = "except" /\ UNCHANGED dist_dict
    /\ UNCHANGED <<svars, ovars, bvars, exception, tie_break, csv_file, row_n,
                   final_rows, results_df>>

\* (mutant) the fallback is given the text with the quotes replaced
AlternateNormalized(cell) == Normalize(cell)

\* line 64: the argument of the fallback is row["distribution"] itself
AlternateInput(cell) == cell

\* lines 61-64: the handler of any exception of the primary parser calls
\* ast.literal_eval; its exception leaves transform_to_citations
AlternateParse ==
    /\ tpc = "except"
    /\ LET text == AlternateInput(df_results[row_n].distribution)
           r == LiteralEval(text)
       IN  /\ parser_calls' = Append(parser_calls,
                                     [parser |-> "ast.literal_eval",
                                      row |-> row_n, text |-> text])
           /\ IF r.ok THEN dist_dict' = r.v /\ tpc' = "aggregate"
              ELSE tpc' = "record_failed" /\ UNCHANGED dist_dict
    /\ UNCHANGED <<svars, ovars, bvars, exception, tie_break, csv_file, row_n,
                   final_rows, results_df>>

\* lines 66-78: the row's selections by citation count are stored
AggregateRow ==
    /\ tpc = "aggregate"
    /\ final_rows' = Append(final_rows,
                            [settings |-> df_results[row_n].settings,
                             citation_distribution |->
                                 CitationCounter(dist_dict)])
    /\ tpc' = "iterrows"
    /\ UNCHANGED <<svars, ovars, bvars, exception, tie_break, csv_file, row_n,
                   parser_calls, dist_dict, results_df>>

\* lines 80-85: all rows are done, the output is written from final_rows
TransformDone ==
    /\ tpc = "iterrows"
    /\ row_n = Len(df_results)
    /\ tpc' = "transformed"
    /\ UNCHANGED <<svars, ovars, bvars, exception, tie_break, csv_file, row_n,
                   parser_calls, dist_dict, final_rows, results_df>>

PersistNext ==
    \/ save_distribution \/ load_results
    \/ TransformOpen \/ NextRow \/ PrimaryParse \/ AlternateParse
    \/ AggregateRow \/ TransformDone

PersistSpec == PersistInit /\ [][PersistNext]_vars

-----------------------------------------------------------------------------
(* Properties of rank_and_sample *)

Distinct(ids) == \A i, j \in DOMAIN ids : ids[i] = ids[j] => i = j

\* C1: for every candidate list of n ids, page size N > 0 and draw count
\* k > 0, rank_and_sample terminates and the counts of the Counter it returns
\* sum to min(k, n): k draws when n >= k, all n candidates otherwise.
\* Termination is stated by a variant: a call that has not returned can take
\* a step, and every step lowers StepsLeft, which is never negative.
CanStep ==
    \/ spc \in {"ready", "call"}
    \/ CanDraw /\ DrawStep(working_pages, np_state) # {}
    \/ LoopOver

StepsLeft ==
    CASE spc = "ready" -> MaxK + 3
      [] spc = "call"  -> k + 2
      [] spc = "loop"  -> k - draw_i + 1
      [] OTHER         -> 0

C1_DrawCount ==
    /\ [](IF spc = "done"
          THEN CounterTotal(result) = Min(k, Len(candidates.ids))
          ELSE StepsLeft > 0 /\ CanStep)
    /\ [][StepsLeft' < StepsLeft]_vars

\* the pool is exhausted before k draws: fewer than k results, returned normally
C1_Witness ==
    /\ spc = "done"
    /\ Len(candidates.ids) >= 1
    /\ Len(candidates.ids) < k
    /\ CounterTotal(result) = Len(candidates.ids)

\* C2: sampling is without replacement: at every moment no id has been drawn
\* more often than it occurs among the candidates, every drawn id is a
\* candidate, and with distinct candidate ids every returned count is 1.
C2_WithoutReplacement ==
    /\ spc \in {"loop", "done"} =>
          /\ \A x \in Ids : Occurrences(selected_papers, x)
                                <= Occurrences(candidates.ids, x)
          /\ Range(selected_papers) \subseteq Range(candidates.ids)
    /\ (spc = "done" /\ Distinct(candidates.ids)) =>
          \A x \in DOMAIN result : result[x] = 1

\* three distinct candidates on two pages, three draws, three distinct ids
C2_Witness ==
    /\ spc = "done"
    /\ candidates.ids = <<"A", "B", "C">>
    /\ N = 2 /\ k = 3
    /\ DOMAIN result = {"A", "B", "C"}
    /\ \A x \in DOMAIN result : result[x] = 1

\* C3: two executions of the sampling on the same candidates, with the same
\* configuration and the same seed, return identical SelectionResults.
C3_SeedDeterminism ==
    (run = 2 /\ spc = "done") => result = first_result

-----------------------------------------------------------------------------
(* Properties of run_experiment *)

IsPrefix(a, b) == Len(a) <= Len(b) /\ SubSeq(b, 1, Len(a)) = a

QueryIds(rows) == [i \in DOMAIN rows |-> rows[i].query_id]

\* the ids s, s+1, ..., e-1 in order (none when e <= s)
IdRange(s, e) == [i \in 1..Max(0, e - s) |-> s + i - 1]

\* the data rows this process has appended to the log of configuration i
Appended(i) ==
    RowsOf(SubSeq(Lines(log[i]), log_len0[i] + 1, Len(Lines(log[i]))))

\* the draws of id x this process has produced under the key `key`
RECURSIVE ProducedCount(_, _, _)
ProducedCount(key, x, n) ==
    IF n = 0 THEN 0
    ELSE ProducedCount(key, x, n - 1)
         + (IF SettingsKey(settings[produced[n].settings_id + 1]) = key
            THEN CounterGet(produced[n].distribution, x) ELSE 0)

ProducedKeys ==
    {SettingsKey(settings[produced[n].settings_id + 1]) : n \in DOMAIN produced}

\* a Counter holds exactly the draws this process produced under its key
HoldsProduced(key, c) ==
    /\ \A x \in Ids : CounterGet(c, x) = ProducedCount(key, x, Len(produced))
    /\ \A x \in DOMAIN c : c[x] > 0

\* C4: run_experiment processes exactly the queries [s, min(s + batch, Q)),
\* s being the number of data rows of configuration 0's log; the logs of the
\* other configurations do not influence s.
C4_ResumeRange ==
    [][/\ launches' = launches + 1 =>
            /\ start_index' = Len(DataRows(log[0]))
            /\ end_index' = Min(start_index' + Batch, NumQueries)
       /\ pc' = "done" => begun' = IdRange(start_index', end_index')]_vars

\* C5: each configuration's log only grows: rows stay at their position, the
\* data-row count never decreases, and a log holds its header row exactly
\* once, written first, when the file is created.
HeaderOnce(f) ==
    Len(DataRows(f)) > 0 =>
        /\ Lines(f)[1].kind = "header"
        /\ Len(Lines(f)) = Len(DataRows(f)) + 1

C5_AppendOnlyLog ==
    [][\A i \in SettingsIds :
          /\ log[i].exists =>
                log'[i].exists /\ IsPrefix(Lines(log[i]), Lines(log'[i]))
          /\ Len(DataRows(log'[i])) >= Len(DataRows(log[i]))
          /\ HeaderOnce(log'[i])]_vars

\* C6: whenever a run computes its resume offset, also after a crash at any
\* point, every configuration's log holds the same number of data rows.
C6_Lockstep ==
    [][launches' = launches + 1 =>
          \A i, j \in SettingsIds :
              Len(DataRows(log[i])) = Len(DataRows(log[j]))]_vars

\* C7: at every point of a process, the accumulator kept under a
\* configuration's key is the multiset sum of all results produced under that
\* key since the process started; flushes never reset it.
C7_Accumulator ==
    (Running \/ pc = "done") =>
        /\ DictKeys(distribution_dict) = ProducedKeys
        /\ \A i, j \in DOMAIN distribution_dict :
              distribution_dict[i].settings = distribution_dict[j].settings
                  => i = j
        /\ \A key \in DictKeys(distribution_dict) :
              HoldsProduced(key, DictGet(distribution_dict, key))

\* after a periodic flush the accumulator still holds the draws made before it
C7_Witness ==
    /\ pc = "fanout"
    /\ processed >= FlushEvery
    /\ settings_id = Len(settings)
    /\ \E key \in DictKeys(distribution_dict) :
          CounterTotal(DictGet(distribution_dict, key)) > FlushEvery

\* C8: a flush replaces the whole snapshot by the accumulators of this
\* process: after it the snapshot holds, per key, the totals produced since
\* the process started and nothing of an earlier run's snapshot.
Flushed == pc \in {"save_results", "open", "header", "rows", "done"}

C8_SnapshotReplaced ==
    Flushed =>
        /\ snapshot = File(SnapshotRows(distribution_dict))
        /\ \A r \in DOMAIN snapshot.lines :
              HoldsProduced(snapshot.lines[r].settings,
                            snapshot.lines[r].distribution)

\* a resumed run has flushed: its snapshot counts fewer draws than its log
\* of configuration 0 holds rows
C8_Witness ==
    /\ pc = "done"
    /\ launches >= 2
    /\ start_index > 0
    /\ Len(snapshot.lines) > 0
    /\ Len(begun) >= 1
    /\ Len(DataRows(log[0])) > Len(begun)

\* C9: the buffer is flushed after every FlushEvery-th processed query and
\* emptied, and once more at the end: a run that completes over [s, e) has
\* appended each id of [s, e) exactly once, in increasing order, to every log.
C9_FlushSchedule ==
    /\ pc = "loop" =>
          \A i \in SettingsIds :
              (IF i \in DOMAIN result_buffer
               THEN Len(result_buffer[i].query_id) ELSE 0)
                  = processed % FlushEvery
    /\ pc = "done" =>
          \A i \in SettingsIds :
              QueryIds(Appended(i)) = IdRange(start_index, end_index)

\* a completed run with a periodic flush and a final flush that wrote rows
C9_Witness ==
    /\ pc = "done"
    /\ end_index - start_index > FlushEvery
    /\ (end_index - start_index) % FlushEvery # 0
    /\ \A i \in SettingsIds :
          QueryIds(Appended(i)) = IdRange(start_index, end_index)

\* the queries this process has sampled for configuration i whose rows are
\* not yet in its log
Unlogged(i) ==
    Cardinality({n \in DOMAIN produced : produced[n].settings_id = i})
        - Len(Appended(i))

\* C10: at any moment the queries processed but not yet appended to a
\* configuration's log number at most one flush interval.
C10_BoundedLoss ==
    Running => \A i \in SettingsIds : Unlogged(i) \in 0..FlushEvery

\* a whole flush interval is buffered when the periodic flush begins
C10_Witness ==
    /\ pc = "save_distribution"
    /\ flush_kind = "periodic"
    /\ \A i \in SettingsIds : Unlogged(i) = FlushEvery

\* C11: for each processed query, retrieval and normalization are each done
\* once and before any configuration is sampled; then every configuration is
\* sampled once, in index order, on the same normalized candidates; and all
\* configurations of a query are finished before the next retrieval starts.
C11_FanoutOrder ==
    (Running \/ pc = "done") =>
        /\ begun = IdRange(start_index, start_index + Len(begun))
        /\ \A n \in DOMAIN produced :
              /\ produced[n].settings_id = (n - 1) % Len(settings)
              /\ produced[n].query_id = begun[((n - 1) \div Len(settings)) + 1]
              /\ produced[n].candidates =
                    prepare_candidates(get_similar_articles(produced[n].query_id))
        /\ IF pc = "fanout"
           THEN /\ calls = [get |-> 1, prepare |-> 1]
                /\ begun[Len(begun)] = global_query_id
                /\ candidates =
                      prepare_candidates(get_similar_articles(global_query_id))
                /\ Len(produced) =
                      (Len(begun) - 1) * Len(settings) + settings_id
           ELSE Len(produced) = Len(begun) * Len(settings)

\* the second query of a run is being retrieved after both configurations of
\* the first were sampled
C11_Witness ==
    /\ pc = "fanout"
    /\ settings_id = 0
    /\ Len(begun) = 2
    /\ Len(produced) = Len(settings)
    /\ produced[1].settings_id = 0 /\ produced[2].settings_id = 1
    /\ produced[1].query_id = produced[2].query_id

\* the results configuration `config` can give for query q when it is sampled
\* right after the query's seeding, as the first or only one of its set
SampledAlone(config, q) ==
    {o[1] : o \in rank_and_sample(
                      prepare_candidates(get_similar_articles(q)),
                      config.N, config.k, config.pn,
                      NpSeed(QuerySeed(hash_salt, q)))}

\* C27: rank_and_sample leaves the prepared candidates unchanged, the drawn
\* ids being removed from a working copy only: every configuration of a
\* query ranks and samples from the full candidate set of the query, however
\* many draws the configurations before it have made.
C27_CandidatesIntact ==
    [][(pc = "fanout" /\ Len(produced') = Len(produced) + 1) =>
          LET full == prepare_candidates(get_similar_articles(global_query_id))
              step == produced'[Len(produced')]
          IN  /\ candidates = full
              /\ candidates' = candidates
              /\ DOMAIN step.distribution \subseteq Range(full.ids)
              /\ CounterTotal(step.distribution)
                     = Min(settings[settings_id + 1].k, Len(full.ids))]_vars

\* the query has one candidate; the first configuration has drawn it, and
\* the second configuration has drawn it again
C27_Witness ==
    /\ pc = "fanout"
    /\ settings_id = 2
    /\ Len(candidates.ids) = 1
    /\ Len(produced) >= 2
    /\ LET a == produced[Len(produced) - 1]
           b == produced[Len(produced)]
       IN  /\ a.query_id = global_query_id /\ b.query_id = global_query_id
           /\ a.distribution = b.distribution
           /\ DOMAIN b.distribution = Range(candidates.ids)

\* the rows this process has produced for configuration i, in order
ProducedRows(i) ==
    LET mine == SelectSeq(produced, LAMBDA r : r.settings_id = i)
    IN  [n \in DOMAIN mine |-> Row(mine[n].query_id, mine[n].distribution)]

\* C28: after load no step of a run changes the configuration set or the
\* scaler, in a run and across restarts: index i denotes the same (N, k, pn),
\* the parameters set for a step are those of the step's index, the rows
\* appended to the log of index i are the results of configuration i, and
\* the loaded scaler stays as it is.
C28_SharedReadOnly ==
    /\ [][/\ settings' = settings
          /\ settings_file' = settings_file
          /\ scaler' = scaler /\ scaler_file' = scaler_file
          /\ (pc = "fanout" /\ settings_id' = settings_id + 1) =>
                 Config(N', k', pn') = settings[settings_id + 1]]_vars
    /\ []((Running \/ pc = "done") =>
             /\ DOMAIN log \subseteq SettingsIds
             /\ \A i \in DOMAIN log : IsPrefix(Appended(i), ProducedRows(i)))

\* after a restart the rows of both configurations are appended to their
\* own logs, behind the rows of the run before
C28_Witness ==
    /\ pc = "done"
    /\ launches >= 2
    /\ \A i \in SettingsIds :
          /\ i \in DOMAIN log
          /\ log_len0[i] > 0
          /\ Appended(i) = ProducedRows(i)
          /\ Len(Appended(i)) > 0
    /\ settings[1] # settings[2]

\* the query ids of the data rows of configuration i's log, in file order
LoggedIds(i) == QueryIds(DataRows(log[i]))

\* C29: across runs, crashes at any point and resumes, no query id is
\* appended twice to the log of a configuration, and the query ids of each
\* log are strictly increasing.
C29_NoDuplicateIds ==
    \A i \in DOMAIN log :
        \A a, b \in DOMAIN LoggedIds(i) :
            a < b => LoggedIds(i)[a] < LoggedIds(i)[b]

\* C30: across runs, crashes and resumes, the log of configuration 0 holds
\* exactly the query ids 0, 1, ..., n-1 in order: data row i has query id i,
\* and the number of data rows is the index of the first query not yet logged
\* for configuration 0.
C30_FirstLogDense ==
    0 \in DOMAIN log => LoggedIds(0) = IdRange(0, Len(DataRows(log[0])))

\* C12: within a query the result of a configuration depends only on the
\* shared candidates, its own (N, k, pn) and the query's seed: it is a result
\* the configuration gives whatever configurations precede it in the set,
\* no generator state being carried over from one configuration to the next.
C12_ConfigIndependence ==
    Running =>
        \A n \in DOMAIN produced :
            produced[n].distribution
                \in SampledAlone(settings[produced[n].settings_id + 1],
                                 produced[n].query_id)

\* C13: the result recorded for a query is the same in an uninterrupted run
\* and in a run resumed after a restart: the seed applied before the query is
\* a function of the global query index alone, the same in every launch
\* whatever its resume offset.
C13_ResumeReproducible ==
    run = 2 =>
        /\ seed = first_seed
        /\ spc = "done" => result = first_result

NonEmptyPages(wp) == {p \in DOMAIN wp : Len(wp[p]) > 0}

\* C14: at every draw the selected page is non-empty: the page distribution
\* has one entry per non-empty page, the page selected is one of them, so the
\* candidate draw has an element to take; and when no page is left non-empty
\* the loop ends and the call returns.
C14_NonEmptyPage ==
    spc = "loop" =>
        IF draw_i < k /\ NonEmptyPages(working_pages) # {}
        THEN /\ CanDraw
             /\ Len(ActiveIndices(working_pages))
                    = Cardinality(NonEmptyPages(working_pages))
             /\ AbsPageIdx(working_pages, np_state)
                    \in NonEmptyPages(working_pages)
             /\ DrawStep(working_pages, np_state) # {}
        ELSE LoopOver

\* a draw is due while an emptied page lies before a non-empty one
C14_Witness ==
    /\ spc = "loop"
    /\ draw_i >= 1 /\ draw_i < k
    /\ Len(working_pages) >= 2
    /\ working_pages[1] = <<>>
    /\ NonEmptyPages(working_pages) # {}

\* C15: when the page size N is at least the number n >= 1 of candidates
\* there is exactly one page, it has probability 1 and every draw selects it,
\* each draw takes one of the candidates still on it, and sampling stops
\* after min(k, n) draws, the page being exhausted when k >= n.
C15_SinglePage ==
    (spc \in {"loop", "done"} /\ Len(candidates.ids) >= 1
                              /\ N >= Len(candidates.ids)) =>
        /\ Len(working_pages) = 1
        /\ \A x \in Ids :
              Occurrences(working_pages[1], x) + Occurrences(selected_papers, x)
                  = Occurrences(candidates.ids, x)
        /\ CanDraw =>
              /\ ActiveIndices(working_pages) = <<1>>
              /\ LET p == distribution_function(1)
                 IN  Len(p) = 1 /\ p[1] = DistSum(p)
              /\ AbsPageIdx(working_pages, np_state) = 1
              /\ \A o \in DrawStep(working_pages, np_state) :
                    o[1] \in Range(working_pages[1])
        /\ spc = "done" =>
              /\ Len(selected_papers) = Min(k, Len(candidates.ids))
              /\ CounterTotal(result) = Min(k, Len(candidates.ids))
              /\ k >= Len(candidates.ids) => working_pages = << <<>> >>

\* three candidates on one page of size three, all drawn
C15_Witness ==
    /\ spc = "done"
    /\ Len(candidates.ids) = 3 /\ N = 3 /\ k = 3
    /\ working_pages = << <<>> >>
    /\ CounterTotal(result) = 3

\* the input positions of the candidates in ranked order
sorted_indices == Argsort(Scores(candidates, pn), DOMAIN candidates.ids)

\* the ids of the pages, page after page
RECURSIVE Flatten(_)
Flatten(pages) ==
    IF pages = <<>> THEN <<>> ELSE Head(pages) \o Flatten(Tail(pages))

\* rank_and_sample has ranked and paginated, no draw is made yet
Paginated == spc = "loop" /\ draw_i = 0

\* C25: the ranked list of rank_and_sample is a permutation of the
\* candidates in non-increasing order of the weighted score, and candidates
\* of equal score keep their retrieval order (the sort is stable); the pages
\* hold the ranked list, so the ranking and the page membership are a
\* function of the candidates and the weights alone.
C25_StableRanking ==
    Paginated =>
        LET scores == Scores(candidates, pn)
            n == Len(candidates.ids)
            stable == CHOOSE f \in Perms(1..n) :
                          \A r, q \in 1..n :
                              r < q => \/ scores[f[r]] > scores[f[q]]
                                       \/ /\ scores[f[r]] = scores[f[q]]
                                          /\ f[r] < f[q]
        IN  /\ sorted_indices \in Perms(1..n)
            /\ \A r, q \in 1..n :
                  r < q => scores[sorted_indices[r]]
                               >= scores[sorted_indices[q]]
            /\ Flatten(working_pages)
                   = [r \in 1..n |-> candidates.ids[sorted_indices[r]]]
            /\ Flatten(working_pages)
                   = [r \in 1..n |-> candidates.ids[stable[r]]]

\* C26: the pages are contiguous slices of the ranked list: concatenated in
\* page order they are the ranked list, every page but the last holds
\* exactly N ids, the last holds between 1 and N ids, and there are
\* ceil(n / N) pages, none when there is no candidate.
C26_ContiguousPages ==
    Paginated =>
        LET n == Len(candidates.ids)
            cnt == Len(working_pages)
        IN  /\ Flatten(working_pages) = RankedIds(candidates, pn)
            /\ \A p \in 1..(cnt - 1) : Len(working_pages[p]) = N
            /\ cnt > 0 => Len(working_pages[cnt]) \in 1..N
            /\ (cnt - 1) * N < n /\ n <= cnt * N
            /\ n = 0 => cnt = 0

\* three candidates on pages of two: a full page and a shorter last page
C26_Witness ==
    /\ Paginated
    /\ Len(candidates.ids) = 3 /\ N = 2
    /\ Len(working_pages) = 2
    /\ Len(working_pages[1]) = 2 /\ Len(working_pages[2]) = 1

\* the states of the generator
NpStates == 0..63

\* the generator states in which a draw on wp selects page p
SelectedBy(wp, p) == {s \in NpStates : AbsPageIdx(wp, s) = p}

\* C24: at a draw with m active pages the page distribution has m entries,
\* entry j is exp(-j) over the sum of the entries (so they sum to 1) and is
\* applied to the j-th active page in rank order: the rank is the position
\* among the active pages, not the page index, the pages after an emptied
\* one move up, and an earlier active page is strictly more likely than a
\* later one.
C24_RankAmongActive ==
    CanDraw =>
        LET active == ActiveIndices(working_pages)
            m == Cardinality(NonEmptyPages(working_pages))
            p == distribution_function(m)
        IN  /\ Len(active) = m /\ Len(p) = m
            /\ \A j \in 1..m : p[j] = ExpNeg[j]
            /\ DistSum(p) > 0 /\ DistCum(p, m) = DistSum(p)
            /\ \A i, j \in 1..m : i < j => active[i] < active[j]
            /\ \A s \in NpStates :
                  AbsPageIdx(working_pages, s) = active[NpChoice(s, p) + 1]
            /\ \A j \in 1..m :
                  \A s \in SelectedBy(working_pages, active[j]) :
                      /\ DistCum(p, j - 1) * 64 <= s * DistSum(p)
                      /\ s * DistSum(p) < DistCum(p, j) * 64
            /\ \A j \in 1..(m - 1) :
                  Cardinality(SelectedBy(working_pages, active[j]))
                      > Cardinality(SelectedBy(working_pages, active[j + 1]))

\* the first page is emptied: the second and third page have ranks 1 and 2,
\* and the draw selects rank 1, the second page
C24_Witness ==
    /\ CanDraw
    /\ Len(working_pages) = 3
    /\ ActiveIndices(working_pages) = <<2, 3>>
    /\ NpChoice(np_state, distribution_function(2)) = 0
    /\ AbsPageIdx(working_pages, np_state) = 2

\* the progress health_check is to report for a log file
ExpectedProgress(f) ==
    CASE ~f.exists                  -> 0
      [] Lines(f) = <<>>            -> 0
      [] Lines(f) = <<Header>>      -> 0
      [] OTHER                      -> Len(Lines(f)) - 1

\* C16: health_check reports 0 for every configuration whose log does not
\* exist and max(0, line count - 1) otherwise, so 0 for an empty or a
\* header-only file; without the results directory, or without a log of
\* configuration 0, the resume offset is 0 and the run starts at query 0.
C16_HealthCheck ==
    [][/\ IF results_dir
          THEN \A i \in SettingsIds :
                  /\ i \in DOMAIN health_check
                  /\ health_check[i] = ExpectedProgress(log[i])
                  /\ health_check[i] >= 0
          ELSE DOMAIN health_check = {}
       /\ launches' = launches + 1 =>
             /\ start_index' = ExpectedProgress(log[0])
             /\ (~results_dir \/ ~log[0].exists) =>
                   start_index' = 0 /\ global_query_id' = 0]_vars

\* a run has started over an empty log of configuration 0, at query 0
C16_Witness ==
    /\ pc = "fanout"
    /\ launches >= 2
    /\ log[0].exists /\ Lines(log[0]) = <<>>
    /\ start_index = 0
    /\ begun = <<0>>

-----------------------------------------------------------------------------
(* Properties of the snapshot's text and of its readers *)

\* the cell transform_to_citations is parsing, or has parsed last
Cell(r) == df_results[r].distribution

\* the calls of the two parsers made for row r, in order
CallsFor(r) == SelectSeq(parser_calls, LAMBDA c : c.row = r)

\* row r was parsed as line 60 and line 64 prescribe
ParsedByFallbackRule(r) ==
    LET calls_r == CallsFor(r)
        primary == [parser |-> "json.loads", row |-> r,
                    text |-> Normalize(Cell(r))]
        alternate == [parser |-> "ast.literal_eval", row |-> r,
                      text |-> Cell(r)]
    IN  IF r = row_n /\ tpc = "try" THEN calls_r = <<>>
        ELSE IF JsonLoads(Normalize(Cell(r))).ok THEN calls_r = <<primary>>
        ELSE IF r = row_n /\ tpc = "except" THEN calls_r = <<primary>>
        ELSE calls_r = <<primary, alternate>>

\* C22: when a persisted distribution is parsed, the alternate parser
\* (ast.literal_eval) is called only after the primary parser (json.loads on
\* the text with ' replaced by ") has failed, and on the original text of the
\* same record; the record fails only if both parsers fail; a record the
\* primary parser accepts is never passed to the alternate parser.
C22_ParserFallback ==
    /\ \A r \in 1..row_n : ParsedByFallbackRule(r)
    /\ \A i \in DOMAIN parser_calls : parser_calls[i].row \in 1..row_n
    /\ tpc = "except" => ~JsonLoads(Normalize(Cell(row_n))).ok
    /\ tpc = "record_failed" =>
          /\ ~JsonLoads(Normalize(Cell(row_n))).ok
          /\ ~LiteralEval(Cell(row_n)).ok
          /\ Len(CallsFor(row_n)) = 2
    /\ tpc = "aggregate" =>
          dist_dict = IF JsonLoads(Normalize(Cell(row_n))).ok
                      THEN JsonLoads(Normalize(Cell(row_n))).v
                      ELSE LiteralEval(Cell(row_n)).v
    /\ tpc \in {"iterrows", "transformed"} => Len(final_rows) = row_n

\* the primary parser has failed on a key that holds an apostrophe, the
\* alternate parser has accepted the original text
C22_Witness ==
    /\ tpc = "aggregate"
    /\ Len(CallsFor(row_n)) = 2
    /\ Normalize(Cell(row_n)) # Cell(row_n)
    /\ dist_dict = LiteralEval(Cell(row_n)).v
    /\ dist_dict # EmptyDict

\* the configuration whose str() is `key`
ConfigOf(key) == CHOOSE c \in PersistConfigs : SettingsKey(c) = key

\* the snapshot file is the one save_distribution writes for distribution_dict
SavedSnapshot ==
    \E orders \in ItemOrders(distribution_dict) :
        csv_file = SnapshotCsv(distribution_dict, orders)

\* C23: a global distribution (per configuration, a mapping from id strings
\* to positive draw counts) persisted with save_distribution and reloaded
\* with load_results comes back with identical configurations and identical
\* id -> count mappings.
C23_RoundTrip ==
    (tpc \in {"loaded", "load_raised"} /\ SavedSnapshot) =>
        /\ tpc = "loaded"
        /\ Len(results_df) = Len(distribution_dict)
        /\ \A i \in DOMAIN results_df :
              /\ results_df[i].settings
                     = PyConfig(ConfigOf(distribution_dict[i].settings))
              /\ results_df[i].distribution
                     = PyCounter(distribution_dict[i].distribution)

\* two configurations were saved and loaded, one with ids that hold quotes
C23_Witness ==
    /\ tpc = "loaded"
    /\ SavedSnapshot
    /\ Len(results_df) = 2
    /\ DOMAIN distribution_dict[1].distribution = {"B'", "'\""}
    /\ distribution_dict[1].distribution["B'"] = MaxCount

-----------------------------------------------------------------------------
(* Properties of the entry point and of the engine's construction *)

\* the engine has been constructed: __init__ has returned
EngineConstructed == mpc \in {"constructed", "run"} \/ pc # "off"

\* init_connection has raised: the scaler was loaded, no collection is set
ConnectionAbort == mpc = "raised" /\ scaler /\ ~chroma_collection

\* C17: init_connection makes at most 5 connection attempts; it returns at
\* the first successful attempt without a further one; after exactly 5
\* consecutive failures it raises RuntimeError, which aborts startup; the
\* engine is never constructed without a collection.
C17_BoundedConnect ==
    /\ attempts <= MaxRetries
    /\ mpc = "connect" => attempts = retries /\ ~chroma_collection
    /\ chroma_collection => attempts = retries + 1
    /\ ConnectionAbort =>
          /\ attempts = MaxRetries
          /\ pc = "off" /\ launches = 0 /\ begun = <<>>
    /\ EngineConstructed => chroma_collection

\* five attempts have failed and startup is aborted
C17_Witness ==
    /\ ConnectionAbort
    /\ attempts = MaxRetries
    /\ retries = MaxRetries

\* C18: a retrieval call that fails during a batch is retried, up to a fixed
\* number of attempts: the batch aborts on a failed retrieval only after the
\* call was made again, and the calls for one query never exceed the budget.
C18_RetrievalRetried ==
    [][/\ (pc' = "failed" /\ exception' = "get_similar_articles"
                           /\ pc # "failed") => calls'.get > 1
       /\ calls'.get <= MaxRetries]_vars

\* run_experiment has raised and main() has not handled it yet
BatchFailed == mpc = "run" /\ pc = "failed"

\* C21: an exception raised while a batch is processed (by the retrieval, the
\* normalization, the sampling or the persistence) is logged with the
\* exception and raised again by main(), which then does not return
\* normally; the rows that earlier flushes of the run have appended to the
\* logs stay as they are.
C21_LoggedAndReraised ==
    [][/\ (pc' = "failed" /\ pc # "failed") =>
              /\ exception' # "none"
              /\ fvars' = fvars
       /\ BatchFailed =>
              /\ mpc' = "raised"
              /\ logged' = Append(logged, [msg |-> "Batch execution failed",
                                           e |-> exception])
              /\ fvars' = fvars
       /\ mpc' = "returned" => pc' # "failed" /\ exception' = "none"]_vars

\* a later flush has raised after an earlier flush had appended rows
C21_Witness ==
    /\ mpc = "raised"
    /\ pc = "failed"
    /\ exception = "save_results"
    /\ \E i \in SettingsIds : Len(Appended(i)) >= FlushEvery
    /\ Len(logged) = 1 /\ logged[1].e = exception

\* C19: if the pre-fit scaler artifact is missing, constructing the engine
\* fails before any connection attempt is made and before any query is
\* processed, and no scaler is fitted in its place.
C19_ScalerMissing ==
    ~scaler_file =>
        /\ ~scaler
        /\ attempts = 0 /\ ~chroma_collection
        /\ mpc \in {"main", "seed", "experiment", "returned", "raised"}
        /\ mpc = "returned" => ~settings_file.exists
        /\ pc = "off" /\ launches = 0 /\ begun = <<>> /\ produced = <<>>
        /\ ~results_dir /\ snapshot = NoFile

\* the construction has raised on the missing scaler
C19_Witness ==
    /\ ~scaler_file
    /\ settings_file.exists
    /\ mpc = "raised"
    /\ attempts = 0

\* C20: a missing configuration set artifact is a fatal startup error: the
\* entry point ends in a failure, not in a normal return; no experiment is
\* created, no query is processed, no result log or snapshot is written.
C20_SettingsMissing ==
    ~settings_file.exists =>
        /\ mpc \in {"main", "raised"}
        /\ ~scaler /\ ~chroma_collection /\ attempts = 0
        /\ pc = "off" /\ launches = 0 /\ begun = <<>> /\ produced = <<>>
        /\ ~results_dir /\ snapshot = NoFile

-----------------------------------------------------------------------------
(* Properties of the snapshot against the logs *)

\* the multiset sum of the distributions of the first n rows
RECURSIVE SumRows(_, _)
SumRows(rows, n) ==
    IF n = 0 THEN EmptyCounter
    ELSE CounterUpdate(SumRows(rows, n - 1), rows[n].distribution)

RowSum(rows) == SumRows(rows, Len(rows))

\* the distribution the snapshot file holds under a key (empty: no row)
SnapshotEntry(key) ==
    LET at == {r \in DOMAIN snapshot.lines : snapshot.lines[r].settings = key}
    IN  IF at = {} THEN EmptyCounter
        ELSE snapshot.lines[CHOOSE r \in at : TRUE].distribution

\* save_distribution and save_results of a flush have both returned
FlushComplete ==
    \/ pc = "save_results" /\ save_id = Len(SaveKeys)
    \/ pc = "done"

StartedEmpty == \A i \in SettingsIds : log_len0[i] = 0

\* C31: with pairwise distinct configurations, after every completed flush
\* the snapshot entry of a configuration is the multiset sum of the
\* distributions of the rows the current process appended to that
\* configuration's log; in a run started with empty logs that is the sum of
\* all rows of the log, in a resumed run the rows of earlier runs are not
\* counted.
C31_SnapshotVsLogs ==
    (FlushComplete /\ Distinct(settings)) =>
        \A i \in SettingsIds :
            LET entry == SnapshotEntry(SettingsKey(settings[i + 1]))
            IN  /\ entry = RowSum(Appended(i))
                /\ StartedEmpty => entry = RowSum(DataRows(log[i]))

\* a resumed run has completed a flush: every log holds rows of the run
\* before, and no snapshot entry counts them
C31_Witness ==
    /\ FlushComplete
    /\ Distinct(settings)
    /\ launches >= 2 /\ start_index > 0
    /\ \A i \in SettingsIds :
          LET entry == SnapshotEntry(SettingsKey(settings[i + 1]))
          IN  /\ Len(Appended(i)) > 0
              /\ Len(DataRows(log[i])) > Len(Appended(i))
              /\ entry = RowSum(Appended(i))
              /\ entry # RowSum(DataRows(log[i]))

\* the process computed a resume offset that leaves no query to process
PastTheEnd == (Running \/ pc = "done") /\ start_index >= NumQueries

\* C32: a run whose resume offset is at least the number of queries begins
\* no query and writes to no log, and its final flush still rewrites the
\* snapshot file: what an earlier run stored there is replaced by a snapshot
\* without configuration rows.
C32_EmptyRunClearsSnapshot ==
    /\ [](PastTheEnd =>
             /\ begun = <<>> /\ produced = <<>>
             /\ distribution_dict = <<>> /\ result_buffer = EmptyBuffer
             /\ \A i \in SettingsIds : Len(Lines(log[i])) = log_len0[i]
             /\ pc \notin {"fanout", "open", "header", "rows"}
             /\ Flushed => snapshot = File(<<>>))
    /\ [][PastTheEnd => log' = log]_vars
    /\ [][(PastTheEnd /\ pc = "save_distribution" /\ pc' = "to_csv") =>
             /\ flush_kind = "final"
             /\ snapshot' = File(<<>>)]_vars

\* every query is logged, the run has ended without a row of its own, and
\* the snapshot file exists without a row
C32_Witness ==
    /\ pc = "done"
    /\ start_index >= NumQueries
    /\ \A i \in SettingsIds :
          /\ Len(DataRows(log[i])) >= NumQueries
          /\ Appended(i) = <<>>
    /\ snapshot = File(<<>>)

\* the configurations this process has sampled so far
ProcessedConfigs ==
    {settings[produced[n].settings_id + 1] : n \in DOMAIN produced}

\* the results this process produced under the indices that hold `config`
ProducedUnder(config) ==
    SelectSeq(produced, LAMBDA r : settings[r.settings_id + 1] = config)

\* the accumulator distribution_dict holds under a key (empty: no entry)
Accumulator(key) ==
    IF key \in DictKeys(distribution_dict)
    THEN DictGet(distribution_dict, key) ELSE EmptyCounter

\* C33: accumulators and snapshot are keyed by the configuration's string
\* form, not by its index: there is one accumulator, and after a flush one
\* snapshot row, per distinct configuration processed so far; indices that
\* hold equal (N, k, pn) share one accumulator, which is the sum of the
\* draws of all of them, while each index appends only its own rows to its
\* own log.
C33_KeyedByContent ==
    (Running \/ pc = "done") =>
        /\ Len(distribution_dict) = Cardinality(ProcessedConfigs)
        /\ DictKeys(distribution_dict)
               = {SettingsKey(c) : c \in ProcessedConfigs}
        /\ \A i \in SettingsIds :
              LET config == settings[i + 1]
                  key == SettingsKey(config)
                  sum == RowSum(ProducedUnder(config))
              IN  /\ Accumulator(key) = sum
                  /\ IsPrefix(Appended(i), ProducedRows(i))
                  /\ Flushed =>
                        /\ Len(snapshot.lines) = Cardinality(ProcessedConfigs)
                        /\ SnapshotEntry(key) = sum

\* two indices hold the same configuration and have drawn differently: one
\* snapshot row counts the draws of both, and the two logs differ
C33_Witness ==
    /\ pc = "done"
    /\ Len(settings) = 2 /\ settings[1] = settings[2]
    /\ Len(snapshot.lines) = 1
    /\ Len(Appended(0)) > 0
    /\ Appended(0) = ProducedRows(0) /\ Appended(1) = ProducedRows(1)
    /\ Appended(0) # Appended(1)
    /\ snapshot.lines[1].distribution
           = CounterUpdate(RowSum(Appended(0)), RowSum(Appended(1)))

=============================================================================
